---- MODULE Spec2Model ----
(***************************************************************************)
(* A model of the subtitle acquisition and normalisation pipeline of       *)
(* yt-transcript-gpt (src/src/app/transcript_extractor.py) and of the      *)
(* sidebar that feeds it (src/src/app/ui.py), of the page that keeps its   *)
(* results (src/src/app/main.py), of the generative-AI content module      *)
(* (src/src/app/gemini_ai.py) and of the resolver of src/app.py.           *)
(*                                                                         *)
(* Text is modelled character by character: a Python str is a sequence of  *)
(* one-character strings, so that split, strip, substring tests, the       *)
(* regular expressions and the number conversions are computed the way     *)
(* the code computes them.  A Python float is modelled by an exact decimal *)
(* [n, e] standing for n / 10^e; IEEE rounding is not modelled.            *)
(***************************************************************************)
EXTENDS Integers, Sequences, FiniteSets, TLC

VARIABLES
    TRANSCRIPT_API_AVAILABLE, \* module flag, transcript_extractor.py:16-21
    YT_DLP_AVAILABLE,         \* module flag, transcript_extractor.py:24-29
    transcript_data,          \* self.transcript_data
    video_info,               \* self.video_info
    installed_opener,         \* urllib's process-wide opener (install_opener)
    pc,                       \* position of the running extract_transcript call
    call,                     \* arguments and locals of the running call
    ret,                      \* the pair the last call returned
    trace,                    \* requests made by the running call, in order
    content,                  \* parser harness: the subtitle text under parse
    cues,                     \* parser harness: the caption list it renders
    parsed,                   \* parser harness: what the parsers returned
    stamp,                    \* timestamp harness: a clock string and its readings
    lookup,                   \* resolver harness: a URL and what it resolved to
    ai,                       \* a GeminiAI object and the last operation on it
    fetch,                    \* secondary adapter harness: a video's tracks and the result
    session,                  \* st.session_state of main.py
    used_keys                 \* history: the note keys written in the session

vars == <<TRANSCRIPT_API_AVAILABLE, YT_DLP_AVAILABLE, transcript_data,
          video_info, installed_opener, pc, call, ret, trace,
          content, cues, parsed, stamp, lookup, ai, fetch, session,
          used_keys>>

orchVars == <<TRANSCRIPT_API_AVAILABLE, YT_DLP_AVAILABLE, transcript_data,
              video_info, installed_opener, pc, call, ret, trace>>

parseVars == <<content, cues, parsed>>

sideVars == <<ai, fetch, session, used_keys>>

probeVars == <<stamp, lookup, sideVars>>

coreVars == <<orchVars, parseVars, stamp, lookup>>

-----------------------------------------------------------------------------
(* Python str operations, on sequences of one-character strings.           *)

Whitespace == {" ", "\n", "\t", "\r"}

Digits == {"0", "1", "2", "3", "4", "5", "6", "7", "8", "9"}

DigitVal(c) ==
    CASE c = "0" -> 0 [] c = "1" -> 1 [] c = "2" -> 2 [] c = "3" -> 3
      [] c = "4" -> 4 [] c = "5" -> 5 [] c = "6" -> 6 [] c = "7" -> 7
      [] c = "8" -> 8 [] c = "9" -> 9

RECURSIVE Pow10(_)
Pow10(k) == IF k = 0 THEN 1 ELSE 10 * Pow10(k - 1)

Min(S) == CHOOSE x \in S : \A y \in S : x <= y

Max(S) == CHOOSE x \in S : \A y \in S : x >= y

\* s[i..] begins with p
MatchAt(s, i, p) ==
    /\ i + Len(p) - 1 <= Len(s)
    /\ \A k \in 1..Len(p) : s[i + k - 1] = p[k]

startswith(s, p) == MatchAt(s, 1, p)

\* p in s
Contains(s, p) == \E i \in 1..(Len(s) + 1) : MatchAt(s, i, p)

\* str.strip(): from the first to the last character that is not whitespace
strip(s) ==
    LET kept == {k \in 1..Len(s) : s[k] \notin Whitespace}
    IN  IF kept = {} THEN <<>> ELSE SubSeq(s, Min(kept), Max(kept))

\* str.split(sep): the pieces between the occurrences of sep, taken from the
\* left and not overlapping; hits are the places where sep occurs
RECURSIVE SplitFrom(_, _, _, _)
SplitFrom(s, n, hits, from) ==
    LET ahead == {i \in hits : i >= from}
    IN  IF ahead = {} THEN <<SubSeq(s, from, Len(s))>>
        ELSE <<SubSeq(s, from, Min(ahead) - 1)>>
             \o SplitFrom(s, n, hits, Min(ahead) + n)

split(s, sep) ==
    SplitFrom(s, Len(sep), {i \in 1..Len(s) : MatchAt(s, i, sep)}, 1)

\* str.rsplit(sep, 1) when sep is in s: <<before the last sep, after it>>
rsplit1(s, sep) ==
    LET i == Max({k \in 1..Len(s) : MatchAt(s, k, sep)})
    IN  <<SubSeq(s, 1, i - 1), SubSeq(s, i + Len(sep), Len(s))>>

\* sep.join(parts)
RECURSIVE join(_, _)
join(sep, parts) ==
    IF parts = <<>> THEN <<>>
    ELSE IF Len(parts) = 1 THEN parts[1]
    ELSE parts[1] \o sep \o join(sep, Tail(parts))

\* the index of the first c in s at or after i, 0 when there is none
Find(s, c, i) ==
    LET at == {k \in i..Len(s) : s[k] = c}
    IN  IF at = {} THEN 0 ELSE Min(at)

\* re.sub(r"<[^>]+>", "", s): a match begins at a "<" that is followed by a
\* character other than ">" and, later, by a ">"; it ends at the first ">"
\* after that character; matches are taken from the left
TagStarts(s) ==
    {p \in 1..Len(s) :
        /\ s[p] = "<"
        /\ p + 1 <= Len(s)
        /\ s[p + 1] # ">"
        /\ \E j \in (p + 2)..Len(s) : s[j] = ">"}

RECURSIVE StripTagsFrom(_, _, _)
StripTagsFrom(s, starts, i) ==
    LET ahead == {p \in starts : p >= i}
    IN  IF ahead = {} THEN SubSeq(s, i, Len(s))
        ELSE SubSeq(s, i, Min(ahead) - 1)
             \o StripTagsFrom(s, starts, Find(s, ">", Min(ahead) + 2) + 1)

re_sub_tags(s) == StripTagsFrom(s, TagStarts(s), 1)

-----------------------------------------------------------------------------
(* Python number conversions.  A conversion that raises ValueError is      *)
(* [ok |-> FALSE].                                                         *)

\* digit (_? digit)*: the digits of s, or <<>> when s is not of that shape
RECURSIVE DigitPart(_, _)
DigitPart(s, i) ==
    IF i > Len(s) THEN <<>>
    ELSE IF s[i] \in Digits
         THEN IF i = Len(s) THEN <<s[i]>>
              ELSE LET k == IF s[i + 1] = "_" THEN i + 2 ELSE i + 1
                       rest == DigitPart(s, k)
                   IN  IF rest = <<>> THEN <<>> ELSE <<s[i]>> \o rest
         ELSE <<>>

RECURSIVE DigitsVal(_, _)
DigitsVal(ds, k) ==
    IF k = 0 THEN 0 ELSE 10 * DigitsVal(ds, k - 1) + DigitVal(ds[k])

\* int(s): surrounding whitespace, an optional sign, digits
int(s) ==
    LET t == strip(s)
        signed == t # <<>> /\ t[1] \in {"+", "-"}
        body == IF signed THEN Tail(t) ELSE t
        ds == DigitPart(body, 1)
    IN  IF ds = <<>> THEN [ok |-> FALSE, val |-> 0]
        ELSE [ok |-> TRUE,
              val |-> IF signed /\ t[1] = "-"
                      THEN 0 - DigitsVal(ds, Len(ds))
                      ELSE DigitsVal(ds, Len(ds))]

\* an exact decimal n / 10^e, with no trailing zero in n when e > 0
RECURSIVE Norm(_, _)
Norm(n, e) ==
    IF e < 0 THEN Norm(n * 10, e + 1)
    ELSE IF e > 0 /\ n % 10 = 0 THEN Norm(n \div 10, e - 1)
    ELSE [n |-> n, e |-> e]

DecOfInt(k) == [n |-> k, e |-> 0]

DecAdd(a, b) ==
    LET e == IF a.e >= b.e THEN a.e ELSE b.e
    IN  Norm(a.n * Pow10(e - a.e) + b.n * Pow10(e - b.e), e)

DecSub(a, b) == DecAdd(a, [n |-> 0 - b.n, e |-> b.e])

DecLeq(a, b) == DecSub(b, a).n >= 0

Zero == DecOfInt(0)

\* a variant of float_0_dot that reads the digits as a count of milliseconds
float_millis(ms_part) ==
    IF DigitPart(ms_part, 1) = <<>> THEN [ok |-> FALSE, val |-> Zero]
    ELSE [ok |-> TRUE,
          val |-> Norm(DigitsVal(DigitPart(ms_part, 1),
                                 Len(DigitPart(ms_part, 1))), 3)]

\* float("0." + ms_part): ms_part is [digitpart] [(e|E) [+|-] digitpart]
float_0_dot(ms_part) ==
    LET ie == IF Find(ms_part, "e", 1) # 0 THEN Find(ms_part, "e", 1)
              ELSE Find(ms_part, "E", 1)
        mant == IF ie = 0 THEN ms_part ELSE SubSeq(ms_part, 1, ie - 1)
        expo == IF ie = 0 THEN <<>> ELSE SubSeq(ms_part, ie + 1, Len(ms_part))
        md == DigitPart(mant, 1)
        ex == int(expo)
        expoOk == ie = 0 \/ (ex.ok /\ expo[1] \notin Whitespace
                                   /\ expo[Len(expo)] \notin Whitespace)
    IN  IF (mant # <<>> /\ md = <<>>) \/ ~expoOk
        THEN [ok |-> FALSE, val |-> Zero]
        ELSE [ok |-> TRUE,
              val |-> Norm(DigitsVal(md, Len(md)),
                           Len(md) - (IF ie = 0 THEN 0 ELSE ex.val))]

-----------------------------------------------------------------------------
(* The timestamp parsers.  _parse_timestamp and _parse_srt_timestamp share *)
(* one body: delim is the millisecond delimiter and fields the accepted    *)
(* numbers of colon-separated fields.  Whatever raises inside the try      *)
(* block makes the parser return 0.0.                                      *)

\* hours * 3600 + minutes * 60 + seconds + milliseconds, or the two-field
\* sum, once map(int, time_components) has given ints
ClockSum(ints, ms) ==
    IF \E k \in 1..Len(ints) : ~ints[k].ok THEN Zero
    ELSE IF Len(ints) = 3
         THEN DecAdd(DecOfInt(ints[1].val * 3600 + ints[2].val * 60
                              + ints[3].val), ms.val)
         ELSE DecAdd(DecOfInt(ints[1].val * 60 + ints[2].val), ms.val)

\* the part after time_components = time_part.split(":")
ClockFields(time_components, ms, fields) ==
    IF ~ms.ok \/ Len(time_components) \notin fields THEN Zero
    ELSE ClockSum([k \in 1..Len(time_components) |->
                      int(time_components[k])], ms)

\* time_part, ms_part = timestamp_str.rsplit(delim, 1)
ClockParts(parts, fields) ==
    ClockFields(split(parts[1], <<":">>), float_0_dot(parts[2]), fields)

\* the body after timestamp_str = timestamp_str.strip()
ClockOf(timestamp_str, delim, fields) ==
    IF Contains(timestamp_str, <<delim>>)
    THEN ClockParts(rsplit1(timestamp_str, <<delim>>), fields)
    ELSE ClockFields(split(timestamp_str, <<":">>),
                     [ok |-> TRUE, val |-> Zero], fields)

ParseClock(timestamp_str, delim, fields) ==
    ClockOf(strip(timestamp_str), delim, fields)

_parse_timestamp(timestamp_str) == ParseClock(timestamp_str, ".", {2, 3})

\* a variant of _parse_srt_timestamp that takes the period for the
\* millisecond delimiter
_parse_srt_timestamp_period(timestamp_str) ==
    ParseClock(timestamp_str, ".", {3})

_parse_srt_timestamp(timestamp_str) == ParseClock(timestamp_str, ",", {3})

-----------------------------------------------------------------------------
(* The subtitle format parsers.  A segment is [text, start, duration].     *)

HEADER_WEBVTT == <<"W", "E", "B", "V", "T", "T">>
HEADER_KIND == <<"K", "i", "n", "d", ":">>
HEADER_LANGUAGE == <<"L", "a", "n", "g", "u", "a", "g", "e", ":">>
ARROW == <<"-", "-", ">">>
SPACED_ARROW == <<" ", "-", "-", ">", " ">>
NL == <<"\n">>
BLANK_LINE == <<"\n", "\n">>
SPACE == <<" ">>

Segment(text, start_time, end_time) ==
    [text |-> text, start |-> start_time,
     duration |-> DecSub(end_time, start_time)]

\* a variant of Appended that adds the segment whatever its text
AppendedEvenIfEmpty(text, start_time, end_time) ==
    <<Segment(text, start_time, end_time)>>

\* if text: transcript.append({...}), as the segments added (none or one)
Appended(text, start_time, end_time) ==
    IF text # <<>> THEN <<Segment(text, start_time, end_time)>> ELSE <<>>

\* the inner while of _parse_vtt_content: the index of the first line at or
\* after i that is blank, or Len(lines) + 1
CollectEnd(lines, i) ==
    Min({j \in i..Len(lines) : strip(lines[j]) = <<>>} \cup {Len(lines) + 1})

\* a variant of Kept that keeps a line that is empty
KeptEvenIfEmpty(text_line) == <<text_line>>

\* if text_line: text_lines.append(text_line)
Kept(text_line) == IF text_line # <<>> THEN <<text_line>> ELSE <<>>

\* the text lines gathered from lines[i..j-1]: each stripped, its tags
\* removed, kept when something is left
RECURSIVE CollectText(_, _, _)
CollectText(lines, i, j) ==
    IF i >= j THEN <<>>
    ELSE Kept(re_sub_tags(strip(lines[i]))) \o CollectText(lines, i + 1, j)

\* a variant of VttCue that adds the segment of a cue twice
VttCueTwice(timestamp_parts, text_lines) ==
    Appended(join(SPACE, text_lines), _parse_timestamp(timestamp_parts[1]),
             _parse_timestamp(timestamp_parts[2]))
    \o Appended(join(SPACE, text_lines), _parse_timestamp(timestamp_parts[1]),
                _parse_timestamp(timestamp_parts[2]))

\* a cue of _parse_vtt_content whose timing line split in two: the segment
\* it adds, if any, built from the lines up to the blank line at j
VttCue(timestamp_parts, text_lines) ==
    Appended(join(SPACE, text_lines), _parse_timestamp(timestamp_parts[1]),
             _parse_timestamp(timestamp_parts[2]))

\* one pass of the outer while of _parse_vtt_content at line i (1-based):
\* the segments it appends and the line the next pass starts at
VttStepAt(lines, i, line, j) ==
    IF \/ line = <<>>
       \/ startswith(line, HEADER_WEBVTT)
       \/ startswith(line, HEADER_KIND)
       \/ startswith(line, HEADER_LANGUAGE)
    THEN [segments |-> <<>>, next |-> i + 1]
    ELSE IF Contains(line, ARROW) /\ Len(split(line, SPACED_ARROW)) = 2
    THEN [segments |-> VttCue(split(line, SPACED_ARROW),
                              CollectText(lines, i + 1, j)),
          next |-> j + 1]
    ELSE [segments |-> <<>>, next |-> i + 1]

VttStep(lines, i) ==
    VttStepAt(lines, i, strip(lines[i]), CollectEnd(lines, i + 1))

\* the outer while of _parse_vtt_content from line i on: the segments
\* appended from there
RECURSIVE VttLoop(_, _)
\* a variant of VttRest that puts the segments of a later cue first
VttRestReversed(lines, step) == VttLoop(lines, step.next) \o step.segments

VttRest(lines, step) == step.segments \o VttLoop(lines, step.next)

VttLoop(lines, i) ==
    IF i > Len(lines) THEN <<>> ELSE VttRest(lines, VttStep(lines, i))

\* a variant of _parse_vtt_content that appends to self.transcript_data
\* where the code starts from a fresh list
_parse_vtt_content_accumulating(vtt_content) ==
    transcript_data.items \o VttLoop(split(vtt_content, NL), 1)

_parse_vtt_content(vtt_content) == VttLoop(split(vtt_content, NL), 1)

\* the non-blank lines among lines[i..], each stripped
RECURSIVE StrippedNonBlank(_, _)
StrippedNonBlank(lines, i) ==
    IF i > Len(lines) THEN <<>>
    ELSE Kept(strip(lines[i])) \o StrippedNonBlank(lines, i + 1)

\* a block of _parse_srt_content whose timing line split in two
SrtCue(timestamp_parts, text) ==
    Appended(text, _parse_srt_timestamp(timestamp_parts[1]),
             _parse_srt_timestamp(timestamp_parts[2]))

\* one iteration of the for loop of _parse_srt_content, on the lines of the
\* block: the segments the block adds (none or one)
SrtLines(lines) ==
    IF Len(lines) < 3 THEN <<>>
    ELSE IF ~Contains(lines[2], ARROW) THEN <<>>
    ELSE IF Len(split(lines[2], SPACED_ARROW)) # 2 THEN <<>>
    ELSE SrtCue(split(lines[2], SPACED_ARROW),
                re_sub_tags(join(SPACE, StrippedNonBlank(lines, 3))))

SrtBlock(block) == SrtLines(split(strip(block), NL))

RECURSIVE SrtLoop(_, _)
SrtLoop(blocks, k) ==
    IF k > Len(blocks) THEN <<>>
    ELSE SrtBlock(blocks[k]) \o SrtLoop(blocks, k + 1)

_parse_srt_content(srt_content) ==
    SrtLoop(split(strip(srt_content), BLANK_LINE), 1)

-----------------------------------------------------------------------------
(* Optional values.  Python's None and a list are kept apart: an empty     *)
(* list is not None, and both are falsy.                                   *)

NoneValue == [isNone |-> TRUE, items |-> <<>>]

Some(items) == [isNone |-> FALSE, items |-> items]

\* bool(x) for x a list or None
Truthy(x) == ~x.isNone /\ x.items # <<>>

-----------------------------------------------------------------------------
(* The video identifier resolver.                                          *)

IdLen == 11

Letters ==
    {"a", "b", "c", "d", "e", "f", "g", "h", "i", "j", "k", "l", "m",
     "n", "o", "p", "q", "r", "s", "t", "u", "v", "w", "x", "y", "z",
     "A", "B", "C", "D", "E", "F", "G", "H", "I", "J", "K", "L", "M",
     "N", "O", "P", "Q", "R", "S", "T", "U", "V", "W", "X", "Y", "Z"}

\* the character class [0-9A-Za-z_-]
IdChars == Digits \cup Letters \cup {"_", "-"}

\* ([0-9A-Za-z_-]{11}) matches at s[i..]
IdAt(s, i) ==
    /\ i + IdLen - 1 <= Len(s)
    /\ \A k \in 0..(IdLen - 1) : s[i + k] \in IdChars

\* re.search of (?:prefix1|prefix2|...)([0-9A-Za-z_-]{11}): the leftmost
\* position where one of the prefixes is followed by an identifier, the
\* prefixes being tried in order there; group(1) of that match, or no match
PrefixHits(prefixes, s, i) ==
    {k \in 1..Len(prefixes) :
        MatchAt(s, i, prefixes[k]) /\ IdAt(s, i + Len(prefixes[k]))}

SearchFrom(prefixes, s, start) ==
    LET at == {i \in start..Len(s) : PrefixHits(prefixes, s, i) # {}}
    IN  IF at = {} THEN NoneValue
        ELSE LET i == Min(at)
                 from == i + Len(prefixes[Min(PrefixHits(prefixes, s, i))])
             IN  Some(SubSeq(s, from, from + IdLen - 1))

re_search(prefixes, s) == SearchFrom(prefixes, s, 1)

\* the three patterns of extract_video_id, each as its alternatives before
\* the capture group (a trailing .* does not change group 1)
patterns ==
    << <<<<"v", "=">>, <<"/">>>>,
       <<<<"e", "m", "b", "e", "d", "/">>>>,
       <<<<"w", "a", "t", "c", "h", "?", "v", "=">>>> >>

RECURSIVE FirstMatch(_, _, _)
FirstMatch(pats, url, k) ==
    IF k > Len(pats) THEN NoneValue
    ELSE LET match == re_search(pats[k], url)
         IN  IF ~match.isNone THEN match ELSE FirstMatch(pats, url, k + 1)

\* a variant of extract_video_id that hands the URL back when no pattern
\* matches
extract_video_id_or_url(url) ==
    IF FirstMatch(patterns, url, 1).isNone THEN Some(url)
    ELSE FirstMatch(patterns, url, 1)

extract_video_id(url) == FirstMatch(patterns, url, 1)

-----------------------------------------------------------------------------
(* The resolver of the single-file page, extract_video_id of app.py.  Its  *)
(* patterns are a literal prefix followed by ([^stops]+).                  *)

\* the end of the run of characters outside stops that begins at s[i]
RunEnd(s, i, stops) ==
    Min({k \in i..Len(s) : s[k] \in stops} \cup {Len(s) + 1})

\* group(1) of a match of prefix([^stops]+) that begins at s[i]
RunFrom(s, i, stops) == SubSeq(s, i, RunEnd(s, i, stops) - 1)

\* the positions where prefix([^stops]+) matches
RunHits(pat, s) ==
    {i \in 1..Len(s) :
        /\ MatchAt(s, i, pat.prefix)
        /\ i + Len(pat.prefix) <= Len(s)
        /\ s[i + Len(pat.prefix)] \notin pat.stops}

\* re.search(pat, url): group(1) of the leftmost match, or no match
search_run(pat, s) ==
    IF RunHits(pat, s) = {} THEN NoneValue
    ELSE Some(RunFrom(s, Min(RunHits(pat, s)) + Len(pat.prefix), pat.stops))

app_patterns ==
    <<[prefix |-> <<"v", "=">>, stops |-> {"&"}],
      [prefix |-> <<"y", "o", "u", "t", "u", ".", "b", "e", "/">>, stops |-> {"?", "&"}],
      [prefix |-> <<"y", "o", "u", "t", "u", "b", "e", ".", "c", "o", "m", "/", "s", "h",
      "o", "r", "t", "s", "/">>,
       stops |-> {"?", "&"}]>>

\* for pat in patterns: ... return match.group(1); return url
RECURSIVE AppFirstMatch(_, _)
AppFirstMatch(url, k) ==
    IF k > Len(app_patterns) THEN Some(url)
    ELSE IF ~search_run(app_patterns[k], url).isNone
    THEN search_run(app_patterns[k], url)
    ELSE AppFirstMatch(url, k + 1)

\* if 'shorts' in url: url = url.split('?')[0]
CutQuery(url) ==
    IF Contains(url, <<"s", "h", "o", "r", "t", "s">>)
    THEN split(url, <<"?">>)[1] ELSE url

app_extract_video_id(url) == AppFirstMatch(CutQuery(strip(url)), 1)

-----------------------------------------------------------------------------
(* The primary source adapter.  What the external call                     *)
(* YouTubeTranscriptApi.get_transcript does is an outcome api:             *)
(* [raises, value]; with the library missing the name is undefined and the *)
(* call raises NameError.  A request is logged as an event                 *)
(* [op, url, via], via being the proxy URI it went through (<<>>: none).   *)

NoProxy == <<>>

Event(op, url, via) == [op |-> op, url |-> url, via |-> via]

Raises == [raises |-> TRUE, value |-> <<>>]

Returns(value) == [raises |-> FALSE, value |-> value]

\* the result of an adapter: what it returns and the requests it made
Outcome(result, events) == [result |-> result, events |-> events]

\* a variant of get_transcript_with_proxy that asks again without the proxy
\* when the request through the proxy raised
get_transcript_with_proxy_then_without(video_id, proxies, api) ==
    IF api.raises
    THEN Outcome(NoneValue, <<Event("get_transcript", video_id, proxies),
                              Event("get_transcript", video_id, NoProxy)>>)
    ELSE Outcome(Some(api.value),
                 <<Event("get_transcript", video_id, proxies)>>)

get_transcript_with_proxy(video_id, proxies, api) ==
    LET request == Event("get_transcript", video_id, proxies)
    IN  IF api.raises
        THEN Outcome(NoneValue, <<request>>)
        ELSE Outcome(Some(api.value), <<request>>)

get_transcript_youtube_api(video_id, use_proxy, proxy_config, api) ==
    IF use_proxy /\ proxy_config # NoProxy
    THEN get_transcript_with_proxy(video_id, proxy_config, api)
    ELSE LET request == Event("get_transcript", video_id, NoProxy)
         IN  IF api.raises
             THEN Outcome(NoneValue, <<request>>)
             ELSE Outcome(Some(api.value), <<request>>)

-----------------------------------------------------------------------------
(* The secondary source adapter.  What yt-dlp, the file system and the     *)
(* network do during one call is an environment env:                       *)
(*   info      what extract_info does: [kind, title, duration, subtitles,  *)
(*             automatic_captions], kind being "raise", "none" or "dict";  *)
(*             a track catalogue is a sequence of <<language, tracks>> in  *)
(*             the dict's key order                                        *)
(*   download  whether ydl.download raises                                 *)
(*   files     the temporary directory's listing after the download, each  *)
(*             file [ext, readable, content]                               *)
(* and a track is [ext, url, raises, body]: url "" when it has none,       *)
(* raises when its download fails, body what the download returns.         *)

preferred_langs == <<"en", "en-US", "en-GB">>

preferred_formats == <<"vtt", "srv3", "srv2", "srv1", "srt">>

WATCH_URL == <<"h", "t", "t", "p", "s", ":", "/", "/", "w", "w", "w", ".", "y", "o",
      "u", "t", "u", "b", "e", ".", "c", "o", "m", "/", "w", "a", "t", "c",
      "h", "?", "v", "=">>

NoVideoInfo ==
    [keys |-> {}, video_id |-> <<>>, url |-> <<>>, title |-> "",
     duration |-> 0]

\* a variant of TracksInOrder that visits the tracks of the preferred
\* formats in list order
TracksInListOrder(subtitle_formats, p) ==
    SelectSeq(subtitle_formats,
              LAMBDA t : \E q \in 1..Len(preferred_formats) :
                             t.ext = preferred_formats[q])

\* the tracks of subtitle_formats in the order the two nested loops of
\* _download_and_parse_subtitle visit them
RECURSIVE TracksInOrder(_, _)
TracksInOrder(subtitle_formats, p) ==
    IF p > Len(preferred_formats) THEN <<>>
    ELSE SelectSeq(subtitle_formats,
                   LAMBDA t : t.ext = preferred_formats[p])
         \o TracksInOrder(subtitle_formats, p + 1)

\* the subtitle texts the environment may hold
VTT_ONE == <<"W", "E", "B", "V", "T", "T", "\n", "\n", "0", "0", ":", "0", "0",
      ":", "0", "1", ".", "0", "0", "0", " ", "-", "-", ">", " ", "0", "0",
      ":", "0", "0", ":", "0", "2", ".", "5", "0", "0", "\n", "h", "i", " ",
      "<", "b", ">", "y", "o", "u", "<", "/", "b", ">">>

VTT_NONE == <<"W", "E", "B", "V", "T", "T", "\n", "K", "i", "n", "d", ":", " ", "c",
      "a", "p", "t", "i", "o", "n", "s", "\n">>

SRT_ONE == <<"1", "\n", "0", "0", ":", "0", "0", ":", "0", "3", ",", "0", "0", "0",
      " ", "-", "-", ">", " ", "0", "0", ":", "0", "0", ":", "0", "4", ",",
      "0", "0", "0", "\n", "y", "o">>

SRV3_XML == <<"<", "p", " ", "t", "=", "\"", "0", "\"", " ", "d", "=", "\"", "1",
      "\"", ">", "h", "i", "<", "/", "p", ">">>

SampleTexts == {VTT_ONE, VTT_NONE, SRT_ONE, SRV3_XML, <<>>}

\* the parser _download_and_parse_subtitle picks for format_pref
ParseByFormat(format_pref, text) ==
    IF format_pref \in {"vtt", "srv3", "srv2", "srv1"}
    THEN _parse_vtt_content(text)
    ELSE _parse_srt_content(text)

\* urllib's installed opener once the proxy set-up of one download attempt
\* has run: install_opener replaces it when a proxy is configured
Opener(use_proxy, proxy_config, opener) ==
    IF use_proxy /\ proxy_config # NoProxy THEN proxy_config ELSE opener

\* the loop body of _download_and_parse_subtitle over the tracks left, in
\* the order of TracksInOrder; Fetched is the part after urlopen, transcript
\* being what the parser made of the download
RECURSIVE DownloadLoop(_, _, _, _, _, _)
Fetched(tracks, k, use_proxy, proxy_config, opener, events, transcript) ==
    IF tracks[k].raises \/ transcript = <<>>
    THEN DownloadLoop(tracks, k + 1, use_proxy, proxy_config, opener, events)
    ELSE [result |-> Some(transcript), events |-> events, opener |-> opener]

DownloadLoop(tracks, k, use_proxy, proxy_config, opener, events) ==
    IF k > Len(tracks)
    THEN [result |-> NoneValue, events |-> events, opener |-> opener]
    ELSE IF tracks[k].url = <<>>
    THEN DownloadLoop(tracks, k + 1, use_proxy, proxy_config, opener, events)
    ELSE Fetched(tracks, k, use_proxy, proxy_config,
                 Opener(use_proxy, proxy_config, opener),
                 Append(events,
                        Event("urlopen", tracks[k].url,
                              Opener(use_proxy, proxy_config, opener))),
                 ParseByFormat(tracks[k].ext, tracks[k].body))

_download_and_parse_subtitle(subtitle_formats, use_proxy, proxy_config, opener) ==
    DownloadLoop(TracksInOrder(subtitle_formats, 1), 1, use_proxy,
                 proxy_config, opener, <<>>)

\* lang in catalogue, catalogue[lang]
HasLang(catalogue, lang) == \E k \in 1..Len(catalogue) : catalogue[k][1] = lang

TracksOf(catalogue, lang) ==
    catalogue[CHOOSE k \in 1..Len(catalogue) : catalogue[k][1] = lang][2]

\* a variant of SelectTracks that takes the first language of the regular
\* bucket before it tries the preferred codes
SelectTracksFirstAvailable(subtitles, auto_captions, l) ==
    IF subtitles # <<>> THEN Some(subtitles[1][2])
    ELSE IF auto_captions # <<>> THEN Some(auto_captions[1][2])
    ELSE NoneValue

\* the for loop over ["en", "en-US", "en-GB"] and the two ifs after it:
\* the track list handed to _download_and_parse_subtitle, if any
RECURSIVE SelectTracks(_, _, _)
SelectTracks(subtitles, auto_captions, l) ==
    IF l <= Len(preferred_langs)
    THEN IF HasLang(subtitles, preferred_langs[l])
         THEN Some(TracksOf(subtitles, preferred_langs[l]))
         ELSE IF HasLang(auto_captions, preferred_langs[l])
         THEN Some(TracksOf(auto_captions, preferred_langs[l]))
         ELSE SelectTracks(subtitles, auto_captions, l + 1)
    ELSE IF subtitles # <<>> THEN Some(subtitles[1][2])
    ELSE IF auto_captions # <<>> THEN Some(auto_captions[1][2])
    ELSE NoneValue

\* the parser get_transcript_ytdlp picks for a subtitle file
FileTranscript(f) ==
    IF f.ext = ".vtt" THEN _parse_vtt_content(f.content)
    ELSE _parse_srt_content(f.content)

\* the loop over the subtitle files found in the temporary directory: the
\* transcript of the first .vtt or .srt file that can be read and parses to
\* a non-empty list
RECURSIVE FromFiles(_, _)
\* a variant of FromFile that returns the transcript of the file even when
\* it is empty
FromFileEvenIfEmpty(files, k, transcript) == Some(transcript)

FromFile(files, k, transcript) ==
    IF transcript = <<>> THEN FromFiles(files, k + 1) ELSE Some(transcript)

FromFiles(files, k) ==
    IF k > Len(files) THEN NoneValue
    ELSE IF files[k].ext \notin {".vtt", ".srt"} \/ ~files[k].readable
    THEN FromFiles(files, k + 1)
    ELSE FromFile(files, k, FileTranscript(files[k]))

\* what one call of get_transcript_ytdlp amounts to: what it returns, the
\* requests it made, and what it leaves in self.video_info and in urllib's
\* installed opener
YtdlpOutcome(result, events, info, opener) ==
    [result |-> result, events |-> events, video_info |-> info,
     opener |-> opener]

TEMP_ENTER == <<Event("TemporaryDirectory.enter", <<>>, NoProxy)>>

TEMP_EXIT == <<Event("TemporaryDirectory.exit", <<>>, NoProxy)>>

\* a variant of ReturnFetched that leaves the temporary directory in place
ReturnFetchedKeepingDir(fetched, events, info) ==
    YtdlpOutcome(fetched.result, events \o fetched.events, info,
                 fetched.opener)

\* return self._download_and_parse_subtitle(...): fetched is what it did
ReturnFetched(fetched, events, info) ==
    YtdlpOutcome(fetched.result, events \o fetched.events \o TEMP_EXIT, info,
                 fetched.opener)

\* the part of get_transcript_ytdlp after the loop over the subtitle files
\* ended without a transcript: selected is the track list picked from the
\* info dict, if any
FromInfo(selected, use_proxy, proxy_config, opener, events, info) ==
    IF selected.isNone
    THEN YtdlpOutcome(NoneValue, events \o TEMP_EXIT, info, opener)
    ELSE ReturnFetched(_download_and_parse_subtitle(selected.items,
                           use_proxy, proxy_config, opener), events, info)

\* a variant of AfterDownload that goes on to the first language of the
\* auto-generated bucket when the selected track list yields nothing
AfterDownloadThenAuto(fromFiles, use_proxy, proxy_config, env, opener, events, info) ==
    IF ~fromFiles.isNone
    THEN YtdlpOutcome(fromFiles, events \o TEMP_EXIT, info, opener)
    ELSE IF FromInfo(SelectTracks(env.info.subtitles,
                                  env.info.automatic_captions, 1),
                     use_proxy, proxy_config, opener, events,
                     info).result.isNone
            /\ env.info.automatic_captions # <<>>
    THEN FromInfo(Some(env.info.automatic_captions[1][2]), use_proxy,
                  proxy_config, opener,
                  SelectSeq(FromInfo(SelectTracks(env.info.subtitles,
                                         env.info.automatic_captions, 1),
                                     use_proxy, proxy_config, opener, events,
                                     info).events,
                            LAMBDA e : e.op # "TemporaryDirectory.exit"),
                  info)
    ELSE FromInfo(SelectTracks(env.info.subtitles,
                               env.info.automatic_captions, 1),
                  use_proxy, proxy_config, opener, events, info)

\* the part of get_transcript_ytdlp after ydl.download returned: fromFiles
\* is what the loop over the subtitle files found
AfterDownload(fromFiles, use_proxy, proxy_config, env, opener, events, info) ==
    IF ~fromFiles.isNone
    THEN YtdlpOutcome(fromFiles, events \o TEMP_EXIT, info, opener)
    ELSE FromInfo(SelectTracks(env.info.subtitles,
                               env.info.automatic_captions, 1),
                  use_proxy, proxy_config, opener, events, info)

\* get_transcript_ytdlp in the environment env, self.video_info being info0
\* and urllib's installed opener being opener when it is called
get_transcript_ytdlp(video_id, use_proxy, proxy_config, available, env, info0, opener) ==
    LET ydl_proxy == IF use_proxy /\ proxy_config # NoProxy
                     THEN proxy_config ELSE NoProxy
        url == WATCH_URL \o video_id
        extract == <<Event("extract_info", url, ydl_proxy)>>
        download == <<Event("download", url, ydl_proxy)>>
        info1 == [keys |-> {"video_id", "url", "title", "duration",
                            "extracted_at"},
                  video_id |-> video_id, url |-> url,
                  title |-> env.info.title, duration |-> env.info.duration]
    IN  IF ~available
        THEN YtdlpOutcome(NoneValue, TEMP_ENTER \o TEMP_EXIT, info0, opener)
        ELSE IF env.info.kind # "dict"
        THEN YtdlpOutcome(NoneValue, TEMP_ENTER \o extract \o TEMP_EXIT,
                          info0, opener)
        ELSE IF env.download
        THEN YtdlpOutcome(NoneValue,
                          TEMP_ENTER \o extract \o download \o TEMP_EXIT,
                          info1, opener)
        ELSE AfterDownload(FromFiles(env.files, 1), use_proxy, proxy_config,
                           env, opener, TEMP_ENTER \o extract \o download,
                           info1)

-----------------------------------------------------------------------------
(* The sidebar: the (use_proxy, proxy_config) pair it hands to the         *)
(* orchestrator.  A proxy URI is the sequence of the pieces its f-string   *)
(* joins; None is NoProxy.                                                 *)

lower(proxy_type) ==
    CASE proxy_type = "HTTP" -> "http"
      [] proxy_type = "HTTPS" -> "https"
      [] proxy_type = "SOCKS5" -> "socks5"

sidebar(use_proxy, proxy_type, proxy_host, proxy_port, proxy_user, proxy_pass) ==
    IF use_proxy /\ proxy_host # "" /\ proxy_port # ""
    THEN IF proxy_user # "" /\ proxy_pass # ""
         THEN <<use_proxy,
                <<lower(proxy_type), "://", proxy_user, ":", proxy_pass,
                  "@", proxy_host, ":", proxy_port>> >>
         ELSE <<use_proxy,
                <<lower(proxy_type), "://", proxy_host, ":", proxy_port>> >>
    ELSE <<use_proxy, NoProxy>>

-----------------------------------------------------------------------------
(* The orchestrator, extract_transcript, as the steps of one call.         *)

INVALID_URL == <<"I", "n", "v", "a", "l", "i", "d", " ", "Y", "o", "u", "T", "u", "b",
      "e", " ", "U", "R", "L">>

SUCCESS_API == <<"S", "u", "c", "c", "e", "s", "s", " ", "u", "s", "i", "n", "g", " ",
      "Y", "o", "u", "T", "u", "b", "e", " ", "T", "r", "a", "n", "s", "c",
      "r", "i", "p", "t", " ", "A", "P", "I">>

SUCCESS_YTDLP == <<"S", "u", "c", "c", "e", "s", "s", " ", "u", "s", "i", "n", "g", " ",
      "y", "t", "-", "d", "l", "p">>

WITH_PROXY == <<" ", "(", "w", "i", "t", "h", " ", "p", "r", "o", "x", "y", ")">>

BOTH_FAILED == <<"B", "o", "t", "h", " ", "t", "r", "a", "n", "s", "c", "r", "i", "p",
      "t", " ", "e", "x", "t", "r", "a", "c", "t", "i", "o", "n", " ", "m",
      "e", "t", "h", "o", "d", "s", " ", "f", "a", "i", "l", "e", "d">>

\* proxy_status = " (with proxy)" if use_proxy else ""
proxy_status(use_proxy) == IF use_proxy THEN WITH_PROXY ELSE <<>>

\* a variant of Accepted that tests "is not None" instead of truth
AcceptedUnlessNone(transcript) == ~transcript.isNone

\* if transcript:
Accepted(transcript) == Truthy(transcript)

\* a variant of AfterPrimary that goes on to the fallback whatever the
\* primary source answered
AfterPrimaryAlwaysFallsBack(transcript) == "secondary"

\* where the call goes after the primary source answered
AfterPrimary(transcript) ==
    IF Accepted(transcript) THEN "done" ELSE "secondary"

PrimaryStatus(use_proxy) == SUCCESS_API \o proxy_status(use_proxy)

\* a variant of SecondaryStatus that names the primary source
SecondaryStatusNamingApi(use_proxy) == SUCCESS_API \o proxy_status(use_proxy)

SecondaryStatus(use_proxy) == SUCCESS_YTDLP \o proxy_status(use_proxy)

Return(transcript, status) == [transcript |-> transcript, status |-> status]

NoCall ==
    [video_url |-> <<>>, use_proxy |-> FALSE, proxy_config |-> NoProxy,
     video_id |-> NoneValue, api_called |-> FALSE, api_raised |-> FALSE,
     api_result |-> NoneValue, ytdlp_called |-> FALSE,
     ytdlp_result |-> NoneValue]

\* the extraction handler of the page up to the primary attempt: a new
\* extractor (__init__), then extract_transcript resolves the identifier and
\* fails fast or stores the basic video information
Invoke(video_url, use_proxy, proxy_config) ==
    LET video_id == extract_video_id(video_url)
        started == [NoCall EXCEPT !.video_url = video_url,
                                  !.use_proxy = use_proxy,
                                  !.proxy_config = proxy_config,
                                  !.video_id = video_id]
    IN  /\ pc = "idle"
        /\ call' = started
        /\ trace' = <<>>
        /\ transcript_data' = NoneValue
        /\ IF ~Truthy(video_id)
           THEN /\ ret' = Return(NoneValue, INVALID_URL)
                /\ pc' = "done"
                /\ video_info' = NoVideoInfo
           ELSE /\ ret' = Return(NoneValue, <<>>)
                /\ pc' = "primary"
                /\ video_info' =
                     [NoVideoInfo EXCEPT
                        !.keys = {"video_id", "url", "extracted_at"},
                        !.video_id = video_id.items,
                        !.url = video_url]
        /\ UNCHANGED <<TRANSCRIPT_API_AVAILABLE, YT_DLP_AVAILABLE,
                       installed_opener>>
        /\ UNCHANGED <<parseVars, probeVars>>

\* if TRANSCRIPT_API_AVAILABLE: ... with the primary source answering api
Primary(api) ==
    LET out == get_transcript_youtube_api(call.video_id.items,
                 call.use_proxy, call.proxy_config, api)
        transcript == out.result
    IN  /\ pc = "primary"
        /\ TRANSCRIPT_API_AVAILABLE
        /\ call' = [call EXCEPT !.api_called = TRUE,
                                !.api_raised = api.raises,
                                !.api_result = transcript]
        /\ trace' = trace \o out.events
        /\ pc' = AfterPrimary(transcript)
        /\ IF AfterPrimary(transcript) = "done"
           THEN /\ transcript_data' = transcript
                /\ ret' = Return(transcript, PrimaryStatus(call.use_proxy))
           ELSE UNCHANGED <<transcript_data, ret>>
        /\ UNCHANGED <<TRANSCRIPT_API_AVAILABLE, YT_DLP_AVAILABLE,
                       video_info, installed_opener>>
        /\ UNCHANGED <<parseVars, probeVars>>

\* the library of the primary source is missing: straight to the fallback
PrimaryUnavailable ==
    /\ pc = "primary"
    /\ ~TRANSCRIPT_API_AVAILABLE
    /\ pc' = "secondary"
    /\ UNCHANGED <<TRANSCRIPT_API_AVAILABLE, YT_DLP_AVAILABLE,
                   transcript_data, video_info, installed_opener, call,
                   ret, trace>>
    /\ UNCHANGED <<parseVars, probeVars>>

\* if YT_DLP_AVAILABLE: ... in the environment env, then the final return
SecondaryReturn(out) ==
    /\ pc = "secondary"
    /\ YT_DLP_AVAILABLE
    /\ call' = [call EXCEPT !.ytdlp_called = TRUE,
                            !.ytdlp_result = out.result]
    /\ trace' = trace \o out.events
    /\ video_info' = out.video_info
    /\ installed_opener' = out.opener
    /\ pc' = "done"
    /\ IF Accepted(out.result)
       THEN /\ transcript_data' = out.result
            /\ ret' = Return(out.result, SecondaryStatus(call.use_proxy))
       ELSE /\ ret' = Return(NoneValue, BOTH_FAILED)
            /\ UNCHANGED transcript_data
    /\ UNCHANGED <<TRANSCRIPT_API_AVAILABLE, YT_DLP_AVAILABLE>>
    /\ UNCHANGED <<parseVars, probeVars>>

Secondary(env) ==
    SecondaryReturn(get_transcript_ytdlp(call.video_id.items,
                        call.use_proxy, call.proxy_config, YT_DLP_AVAILABLE,
                        env, video_info, installed_opener))

\* the library of the secondary source is missing: the final return
SecondaryUnavailable ==
    /\ pc = "secondary"
    /\ ~YT_DLP_AVAILABLE
    /\ ret' = Return(NoneValue, BOTH_FAILED)
    /\ pc' = "done"
    /\ UNCHANGED <<TRANSCRIPT_API_AVAILABLE, YT_DLP_AVAILABLE,
                   transcript_data, video_info, installed_opener, call,
                   trace>>
    /\ UNCHANGED <<parseVars, probeVars>>

\* the call has returned and the page has shown its result: the handler is
\* ready for the next click
Rerun ==
    /\ pc = "done"
    /\ pc' = "idle"
    /\ call' = NoCall
    /\ ret' = Return(NoneValue, <<>>)
    /\ trace' = <<>>
    /\ UNCHANGED <<TRANSCRIPT_API_AVAILABLE, YT_DLP_AVAILABLE,
                   transcript_data, video_info, installed_opener>>
    /\ UNCHANGED <<parseVars, probeVars>>

-----------------------------------------------------------------------------
(* The inputs and the environments the orchestrator is run on.             *)

URL_WATCH == <<"h", "t", "t", "p", "s", ":", "/", "/", "w", "w", "w", ".", "y", "o",
      "u", "t", "u", "b", "e", ".", "c", "o", "m", "/", "w", "a", "t", "c",
      "h", "?", "v", "=", "d", "Q", "w", "4", "w", "9", "W", "g", "X", "c",
      "Q">>

URL_SHORT_LINK == <<"h", "t", "t", "p", "s", ":", "/", "/", "y", "o", "u", "t", "u", ".",
      "b", "e", "/", "d", "Q", "w", "4", "w", "9", "W", "g", "X", "c", "Q">>

URL_EMBED == <<"h", "t", "t", "p", "s", ":", "/", "/", "w", "w", "w", ".", "y", "o",
      "u", "t", "u", "b", "e", ".", "c", "o", "m", "/", "e", "m", "b", "e",
      "d", "/", "9", "b", "Z", "k", "p", "7", "q", "1", "9", "f", "0">>

URL_NO_ID == <<"h", "t", "t", "p", "s", ":", "/", "/", "w", "w", "w", ".", "y", "o",
      "u", "t", "u", "b", "e", ".", "c", "o", "m", "/", "w", "a", "t", "c",
      "h", "?", "v", "=", "t", "o", "o", "S", "h", "o", "r", "t">>

URL_NOT_A_URL == <<"n", "o", "t", " ", "a", " ", "u", "r", "l">>

SampleUrls == {URL_WATCH, URL_SHORT_LINK, URL_EMBED, URL_NO_ID, URL_NOT_A_URL}

\* what the widgets of the sidebar may hold
ProxyTypes == {"HTTP", "SOCKS5"}

ProxyHosts == {"", "proxy.example.com"}

ProxyPorts == {"", "8080"}

ProxyUsers == {"", "username"}

ProxyPasswords == {"", "password"}

SidebarOutputs ==
    {sidebar(u, t, h, p, n, w) :
        u \in BOOLEAN, t \in ProxyTypes, h \in ProxyHosts, p \in ProxyPorts,
        n \in ProxyUsers, w \in ProxyPasswords}

\* what the transcript API may answer
API_ONE ==
    <<[text |-> <<"a", "p", "i", " ", "t", "r", "a", "n", "s", "c", "r", "i", "p", "t">>, start |-> Zero,
       duration |-> DecOfInt(1)]>>

API_TWO ==
    <<[text |-> <<"h", "e", "l", "l", "o", " ", "w", "o", "r", "l", "d">>, start |-> Zero, duration |-> DecOfInt(1)],
      [text |-> <<"a", "g", "a", "i", "n">>, start |-> DecOfInt(1), duration |-> DecOfInt(2)]>>

ApiOutcomes == {Raises, Returns(<<>>), Returns(API_ONE), Returns(API_TWO)}

\* the tracks of one language in one bucket: shape picks what the track
\* list holds
Track(ext, lang, bucket, url, raises, body) ==
    [ext |-> ext,
     url |-> IF url THEN <<bucket, lang, ext>> ELSE <<>>,
     raises |-> raises, body |-> body]

TrackShapes == {"vtt", "srt-after-failures", "nothing-usable"}

TrackList(shape, lang, bucket) ==
    CASE shape = "vtt" ->
           <<Track("srt", lang, bucket, TRUE, FALSE, SRT_ONE),
             Track("json3", lang, bucket, TRUE, FALSE, <<>>),
             Track("vtt", lang, bucket, TRUE, FALSE, VTT_ONE)>>
      [] shape = "srt-after-failures" ->
           <<Track("srt", lang, bucket, TRUE, FALSE, SRT_ONE),
             Track("srv3", lang, bucket, TRUE, FALSE, SRV3_XML),
             Track("vtt", lang, bucket, FALSE, FALSE, VTT_ONE),
             Track("vtt", lang, bucket, TRUE, TRUE, <<>>)>>
      [] shape = "nothing-usable" ->
           <<Track("vtt", lang, bucket, TRUE, FALSE, VTT_NONE),
             Track("srv1", lang, bucket, TRUE, TRUE, <<>>)>>

\* the languages a bucket of the track catalogue may hold, in key order
LanguageLists == {<<>>, <<"en">>, <<"fr", "en-GB">>}

Catalogue(langs, bucket, shape) ==
    [k \in 1..Len(langs) |-> <<langs[k], TrackList(shape, langs[k], bucket)>>]

\* the listings of the temporary directory after the download
File(ext, readable, text) ==
    [ext |-> ext, readable |-> readable, content |-> text]

FileLists ==
    {<<>>,
     <<File(".vtt", TRUE, VTT_ONE)>>,
     <<File(".json", TRUE, <<>>), File(".vtt", FALSE, <<>>),
       File(".vtt", TRUE, VTT_NONE), File(".srt", TRUE, SRT_ONE)>>}

\* what the download leaves: it raises, or it ends with a listing
Downloads ==
    {[raises |-> TRUE, files |-> <<>>]}
    \cup {[raises |-> FALSE, files |-> files] : files \in FileLists}

Info(kind, subtitles, automatic_captions) ==
    [kind |-> kind, title |-> "Test Video", duration |-> 60,
     subtitles |-> subtitles, automatic_captions |-> automatic_captions]

YtdlpEnvs ==
    {[info |-> Info(kind, <<>>, <<>>), download |-> FALSE, files |-> <<>>] :
        kind \in {"raise", "none"}}
    \cup
    {[info |-> Info("dict", Catalogue(subs, "subtitles", shape),
                    Catalogue(autos, "automatic_captions", shape)),
      download |-> d.raises, files |-> d.files] :
        subs \in LanguageLists, autos \in LanguageLists,
        shape \in TrackShapes, d \in Downloads}

-----------------------------------------------------------------------------
(* The parsers at work on caption lists.  A caption list is rendered the   *)
(* way the fixtures of tests/test_transcript_extractor.py are written: as  *)
(* WebVTT, header lines, then a cue per caption, separated by blank lines; *)
(* as SRT, a numbered block per caption.  A caption is [start, end,        *)
(* lines]; a clock [hms, frac] is written hms.frac in WebVTT and hms,frac  *)
(* in SRT.                                                                 *)

MaxCues == 2

Clock(hms, frac) == [hms |-> hms, frac |-> frac]

CLOCK_0 == Clock(<<"0", "0", ":", "0", "0", ":", "0", "0">>, <<"0", "0", "0">>)

CLOCK_1 == Clock(<<"0", "0", ":", "0", "0", ":", "0", "1">>, <<"0", "0", "0">>)

CLOCK_2_5 == Clock(<<"0", "0", ":", "0", "0", ":", "0", "2">>, <<"5", "0", "0">>)

\* not a clock string: int("xx") raises
CLOCK_BAD == Clock(<<"x", "x", ":", "y", "y", ":", "z", "z">>, <<"0", "0", "0">>)

ValidClocks == {CLOCK_0, CLOCK_1, CLOCK_2_5}

Timings == {<<CLOCK_0, CLOCK_1>>, <<CLOCK_1, CLOCK_2_5>>, <<CLOCK_BAD, CLOCK_1>>}

\* the text lines of a caption: plain text, text with markup, a line that
\* is markup only, and a tag opened on one line and closed on the next
TextLines ==
    {<<<<"h", "e", "l", "l", "o", " ", "w", "o", "r", "l", "d">>>>,
     <<<<"<", "b", ">", "h", "i", "<", "/", "b", ">", " ", "y", "o", "u">>, <<"t", "h", "i", "s", " ", "i", "s", " ", "a", " ", "t", "e", "s", "t">>>>,
     <<<<"<", "i", ">">>>>,
     <<<<"<", "i", ">">>, <<"x">>>>,
     <<<<"a", " ", "<", "b">>, <<"c", ">", " ", "d">>>>}

Caption(timing, lines) ==
    [start |-> timing[1], end |-> timing[2], lines |-> lines]

Captions == {Caption(t, l) : t \in Timings, l \in TextLines}

\* the end of a timing line with cue settings written after it
WithSettings(clock, settings) ==
    Clock(clock.hms, clock.frac \o SPACE \o settings)

CueSettings == {<<"a", "l", "i", "g", "n", ":", "s", "t", "a", "r", "t", " ", "p", "o",
      "s", "i", "t", "i", "o", "n", ":", "0", "%">>, <<"l", "i", "n", "e", ":", "9", "0", ".", "5", "%">>}

\* captions with plain text; the timing lines of some carry cue settings
EndsOf(clock) == {clock} \cup {WithSettings(clock, s) : s \in CueSettings}

SettingsTimings ==
    {<<CLOCK_0, end>> : end \in EndsOf(CLOCK_1)}
    \cup {<<CLOCK_1, end>> : end \in EndsOf(CLOCK_2_5)}

SettingsCaptions ==
    {Caption(t, l) :
        t \in SettingsTimings,
        l \in {<<<<"h", "e", "l", "l", "o", " ", "w", "o", "r", "l", "d">>>>,
               <<<<"h", "i", " ", "y", "o", "u">>,
                 <<"t", "h", "i", "s", " ", "i", "s", " ", "a", " ", "t",
                   "e", "s", "t">>>>}}

Headers ==
    {<<HEADER_WEBVTT>>,
     <<HEADER_WEBVTT, <<"K", "i", "n", "d", ":", " ", "c", "a", "p", "t", "i", "o", "n", "s">>, <<"L", "a", "n", "g", "u", "a", "g", "e", ":", " ", "e", "n">>>>}

VttClock(clock) == clock.hms \o <<".">> \o clock.frac

SrtClock(clock) == clock.hms \o <<",">> \o clock.frac

TimingLine(start, end) == start \o SPACED_ARROW \o end

\* str(k) for a block number below ten
BlockNumber(k) == <<CHOOSE c \in Digits : DigitVal(c) = k>>

VttCueText(caption) ==
    join(NL, <<TimingLine(VttClock(caption.start), VttClock(caption.end))>>
             \o caption.lines)

SrtBlockText(caption, k) ==
    join(NL, <<BlockNumber(k),
               TimingLine(SrtClock(caption.start), SrtClock(caption.end))>>
             \o caption.lines)

RenderVtt(header, captions) ==
    join(BLANK_LINE,
         <<join(NL, header)>>
         \o [k \in 1..Len(captions) |-> VttCueText(captions[k])])

RenderSrt(captions) ==
    join(BLANK_LINE,
         [k \in 1..Len(captions) |-> SrtBlockText(captions[k], k)])

NoContent == [rendered |-> FALSE, header |-> <<>>, vtt |-> <<>>, srt |-> <<>>]

NotParsed == [vtt |-> NoneValue, srt |-> NoneValue]

\* one more caption for the list
AddCue(caption) ==
    /\ ~content.rendered
    /\ Len(cues) < MaxCues
    /\ cues' = Append(cues, caption)
    /\ UNCHANGED <<content, parsed>>
    /\ UNCHANGED <<orchVars, probeVars>>

\* the list is written out in both formats
Render(header) ==
    /\ ~content.rendered
    /\ content' = [rendered |-> TRUE, header |-> header,
                   vtt |-> RenderVtt(header, cues), srt |-> RenderSrt(cues)]
    /\ UNCHANGED <<cues, parsed>>
    /\ UNCHANGED <<orchVars, probeVars>>

\* transcript = self._parse_vtt_content(content)
ParseVtt ==
    /\ content.rendered
    /\ parsed.vtt.isNone
    /\ parsed' = [parsed EXCEPT !.vtt = Some(_parse_vtt_content(content.vtt))]
    /\ UNCHANGED <<cues, content>>
    /\ UNCHANGED <<orchVars, probeVars>>

\* transcript = self._parse_srt_content(content)
ParseSrt ==
    /\ content.rendered
    /\ parsed.srt.isNone
    /\ parsed' = [parsed EXCEPT !.srt = Some(_parse_srt_content(content.srt))]
    /\ UNCHANGED <<cues, content>>
    /\ UNCHANGED <<orchVars, probeVars>>

-----------------------------------------------------------------------------
(* The timestamp parsers at work on clock strings.  A clock string is      *)
(* written from up to MaxFields colon-separated fields and an optional     *)
(* fractional part, which follows a period for _parse_timestamp and a      *)
(* comma for _parse_srt_timestamp, the way the two timestamp tests of      *)
(* tests/test_transcript_extractor.py write the same clocks.               *)

MaxFields == 4

\* fields: two digits as the tests write them, a signed number, no number
FieldTexts ==
    {<<"0", "0">>, <<"0", "1">>, <<"3", "0">>, <<"-", "0", "1">>, <<"x", "x">>}

\* fractional parts: none, digits, digits with an exponent, with trailing
\* text, no number
FracTexts ==
    {NoneValue, Some(<<"0", "0", "0">>), Some(<<"5">>),
     Some(<<"2", "5", "0">>), Some(<<"5", "e", "2">>),
     Some(<<"0", "0", "0", " ", "a", "l", "i", "g", "n", ":", "s", "t", "a", "r", "t">>),
     Some(<<"x">>)}

NoStamp == [fields |-> <<>>, frac |-> NoneValue, vtt |-> <<>>, srt |-> <<>>]

\* the clock string of the harness, its fractional part after delim
StampText(delim) ==
    join(<<":">>, stamp.fields)
    \o (IF stamp.frac.isNone THEN <<>> ELSE <<delim>> \o stamp.frac.items)

\* one more field for the clock string
AddField(field) ==
    /\ stamp.vtt = <<>>
    /\ stamp.srt = <<>>
    /\ stamp.frac.isNone
    /\ Len(stamp.fields) < MaxFields
    /\ stamp' = [stamp EXCEPT !.fields = Append(@, field)]
    /\ UNCHANGED <<lookup, orchVars, parseVars, sideVars>>

\* the fractional part is written
AddFrac(frac) ==
    /\ stamp.vtt = <<>>
    /\ stamp.srt = <<>>
    /\ stamp.frac.isNone
    /\ ~frac.isNone
    /\ stamp.fields # <<>>
    /\ stamp' = [stamp EXCEPT !.frac = frac]
    /\ UNCHANGED <<lookup, orchVars, parseVars, sideVars>>

\* self.extractor._parse_timestamp("HH:MM:SS.mmm")
ReadVtt ==
    /\ stamp.fields # <<>>
    /\ stamp' = [stamp EXCEPT !.vtt = <<_parse_timestamp(StampText("."))>>]
    /\ UNCHANGED <<lookup, orchVars, parseVars, sideVars>>

\* self.extractor._parse_srt_timestamp("HH:MM:SS,mmm")
ReadSrt ==
    /\ stamp.fields # <<>>
    /\ stamp' = [stamp EXCEPT !.srt = <<_parse_srt_timestamp(StampText(","))>>]
    /\ UNCHANGED <<lookup, orchVars, parseVars, sideVars>>

-----------------------------------------------------------------------------
(* The resolvers at work on URLs.  A URL is a scheme, the head of one of   *)
(* the four URL shapes and an identifier, as the URLs of                   *)
(* test_extract_video_id are; or it is an input that has none of the       *)
(* shapes.  lookup keeps the URL, the identifier written into it (<<>>:    *)
(* none) and what the method of the extractor and the function of app.py   *)
(* returned for it.                                                        *)

Schemes == {<<"h", "t", "t", "p", "s", ":", "/", "/">>, <<"h", "t", "t", "p", ":", "/", "/">>, <<>>}

SHAPE_WATCH == <<"w", "w", "w", ".", "y", "o", "u", "t", "u", "b", "e", ".", "c", "o",
      "m", "/", "w", "a", "t", "c", "h", "?", "v", "=">>

SHAPE_SHORT_LINK == <<"y", "o", "u", "t", "u", ".", "b", "e", "/">>

SHAPE_SHORTS == <<"w", "w", "w", ".", "y", "o", "u", "t", "u", "b", "e", ".", "c", "o",
      "m", "/", "s", "h", "o", "r", "t", "s", "/">>

SHAPE_EMBED == <<"w", "w", "w", ".", "y", "o", "u", "t", "u", "b", "e", ".", "c", "o",
      "m", "/", "e", "m", "b", "e", "d", "/">>

Shapes == {SHAPE_WATCH, SHAPE_SHORT_LINK, SHAPE_SHORTS, SHAPE_EMBED}

\* identifiers of IdLen characters over [0-9A-Za-z_-]
SampleIds ==
    {<<"d", "Q", "w", "4", "w", "9", "W", "g", "X", "c", "Q">>,
     <<"9", "b", "Z", "k", "p", "7", "q", "1", "9", "f", "0">>,
     <<"-", "_", "-", "_", "-", "_", "-", "_", "-", "_", "-">>,
     <<"0", "0", "0", "0", "0", "0", "0", "0", "0", "0", "0">>,
     <<"s", "h", "o", "r", "t", "s", "-", "e", "m", "b", "d">>,
     <<"e", "m", "b", "e", "d", "_", "w", "a", "t", "c", "h">>}

\* inputs that have none of the shapes: text, nothing, a bare identifier,
\* the site's front page
NoShapeInputs ==
    {URL_NOT_A_URL, <<>>, <<"d", "Q", "w", "4", "w", "9", "W", "g", "X", "c", "Q">>,
     <<"h", "t", "t", "p", "s", ":", "/", "/", "w", "w", "w", ".", "y", "o",
      "u", "t", "u", "b", "e", ".", "c", "o", "m", "/">>}

\* URLs of the embed and watch shapes in which a "/" is followed by eleven
\* identifier characters before the shape's marker: a host without "www.",
\* and a path segment before the marker
SHAPE_EMBED_NOCOOKIE == <<"y", "o", "u", "t", "u", "b", "e", "-", "n", "o", "c", "o", "o", "k",
      "i", "e", ".", "c", "o", "m", "/", "e", "m", "b", "e", "d", "/">>

SHAPE_WATCH_ATTRIBUTION == <<"w", "w", "w", ".", "y", "o", "u", "t", "u", "b", "e", ".", "c", "o",
      "m", "/", "a", "t", "t", "r", "i", "b", "u", "t", "i", "o", "n", "_",
      "l", "i", "n", "k", "?", "u", "=", "/", "w", "a", "t", "c", "h", "?",
      "v", "=">>

EarlyRunShapes == {SHAPE_EMBED_NOCOOKIE, SHAPE_WATCH_ATTRIBUTION}

\* query strings that follow the identifier: further parameters after
\* watch?v=<id>, a query after the other shapes
QueriesOf(shape) ==
    IF shape = SHAPE_WATCH
    THEN {<<"&", "t", "=", "1", "0">>, <<"&", "a", "b", "_", "c", "h", "a", "n", "n", "e", "l", "=", "s", "h",
      "o", "r", "t", "s", "d", "a", "i", "l", "y">>}
    ELSE {<<"?", "f", "e", "a", "t", "u", "r", "e", "=", "s", "h", "a", "r", "e">>, <<"?", "s", "i", "=", "s", "h", "o", "r", "t", "s", "&", "t", "=", "1",
      "0">>}

NoLookup == [url |-> <<>>, id |-> <<>>, visited |-> FALSE,
             method |-> <<>>, script |-> <<>>]

\* a URL of one of the shapes is entered
Visit(scheme, shape, id) ==
    /\ ~lookup.visited
    /\ lookup' = [lookup EXCEPT !.url = scheme \o shape \o id, !.id = id,
                                !.visited = TRUE]
    /\ UNCHANGED <<stamp, orchVars, parseVars, sideVars>>

\* a URL of one of the shapes is entered with a query string after the
\* identifier
VisitWithQuery(scheme, shape, id, query) ==
    /\ ~lookup.visited
    /\ lookup' = [lookup EXCEPT !.url = scheme \o shape \o id \o query,
                                !.id = id, !.visited = TRUE]
    /\ UNCHANGED <<stamp, orchVars, parseVars, sideVars>>

\* an input of no shape is entered
VisitOther(url) ==
    /\ ~lookup.visited
    /\ lookup' = [lookup EXCEPT !.url = url, !.visited = TRUE]
    /\ UNCHANGED <<stamp, orchVars, parseVars, sideVars>>

\* self.extractor.extract_video_id(url)
ResolveByMethod ==
    /\ lookup.visited
    /\ lookup' = [lookup EXCEPT !.method = <<extract_video_id(lookup.url)>>]
    /\ UNCHANGED <<stamp, orchVars, parseVars, sideVars>>

\* video_id = extract_video_id(youtube_url.strip()) of app.py
ResolveByScript ==
    /\ lookup.visited
    /\ lookup' = [lookup EXCEPT
                     !.script = <<app_extract_video_id(strip(lookup.url))>>]
    /\ UNCHANGED <<stamp, orchVars, parseVars, sideVars>>

-----------------------------------------------------------------------------
(* The secondary source adapter at work on the metadata of one video: the  *)
(* download leaves no subtitle file, and the two buckets of the info dict  *)
(* hold track lists of their own shapes.                                   *)

\* two tracks of one format, each with a URL of its own
TwoVttTracks(lang, bucket) ==
    <<[ext |-> "vtt", url |-> <<bucket, lang, "vtt", "1">>, raises |-> FALSE,
       body |-> VTT_NONE],
      [ext |-> "srt", url |-> <<bucket, lang, "srt">>, raises |-> FALSE,
       body |-> SRT_ONE],
      [ext |-> "vtt", url |-> <<bucket, lang, "vtt", "2">>, raises |-> FALSE,
       body |-> VTT_ONE]>>

BucketShapes == TrackShapes \cup {"vtt-twice"}

BucketLanguages ==
    {<<>>, <<"en">>, <<"en-GB", "en-US">>, <<"fr", "en-GB">>, <<"de", "fr">>}

Bucket(langs, bucket, shape) ==
    IF shape = "vtt-twice"
    THEN [k \in 1..Len(langs) |-> <<langs[k], TwoVttTracks(langs[k], bucket)>>]
    ELSE Catalogue(langs, bucket, shape)

MetadataEnvs ==
    {[info |-> Info("dict", Bucket(subs, "subtitles", shape),
                    Bucket(autos, "automatic_captions", auto_shape)),
      download |-> FALSE, files |-> <<>>] :
        subs \in BucketLanguages, autos \in BucketLanguages,
        shape \in BucketShapes, auto_shape \in BucketShapes}

NoFetch == [asked |-> FALSE, env |-> <<>>, out |-> <<>>]

\* transcript = self.get_transcript_ytdlp(video_id) on a new extractor
Fetch(video_id, env) ==
    /\ ~fetch.asked
    /\ fetch' = [asked |-> TRUE, env |-> <<env>>,
                 out |-> <<get_transcript_ytdlp(video_id, FALSE, NoProxy,
                                                TRUE, env, NoVideoInfo,
                                                NoProxy)>>]
    /\ UNCHANGED <<coreVars, ai, session, used_keys>>

-----------------------------------------------------------------------------
(* The generative-AI content module (src/src/app/gemini_ai.py).  The       *)
(* prompt an operation builds is not modelled: what the remote model does  *)
(* with it is an input, drawn from ModelReplies.                           *)

MODEL_NAME == <<"g", "e", "m", "i", "n", "i", "-", "1", ".", "5", "-", "f", "l", "a",
      "s", "h">>

\* str(e) of the AttributeError that None.generate_content raises
NO_MODEL_MESSAGE ==
    <<"'", "N", "o", "n", "e", "T", "y", "p", "e", "'", " ", "o", "b", "j",
      "e", "c", "t", " ", "h", "a", "s", " ", "n", "o", " ", "a", "t", "t",
      "r", "i", "b", "u", "t", "e", " ", "'", "g", "e", "n", "e", "r", "a",
      "t", "e", "_", "c", "o", "n", "t", "e", "n", "t", "'">>

\* GeminiAI.__init__: the value of self.model
GeminiAI(api_key) == IF Truthy(api_key) THEN Some(MODEL_NAME) ELSE NoneValue

is_configured(model) == ~model.isNone

\* what the remote model does: kind "text" answers with the text, kind
\* "generate_content" raises from the call and kind "response.text" raises
\* from the attribute access, each with the text as the exception's message
Reply(kind, text) == [kind |-> kind, text |-> text]

\* the try block of an operation: response = self.model.generate_content(
\* prompt); return response.text
TryGenerate(model, reply) ==
    IF ~is_configured(model)
    THEN [raised |-> TRUE, str |-> NO_MODEL_MESSAGE]
    ELSE [raised |-> reply.kind # "text", str |-> reply.text]

\* a variant of Guarded that lets the exception through
Unguarded(attempt, prefix) ==
    IF attempt.raised THEN Raises ELSE Returns(attempt.str)

\* try: ... except Exception as e: return f"<prefix>{str(e)}"
Guarded(attempt, prefix) ==
    IF attempt.raised
    THEN Returns(prefix \o attempt.str)
    ELSE Returns(attempt.str)

generate_summary(model, reply) ==
    Guarded(TryGenerate(model, reply), <<"E", "r", "r", "o", "r", " ", "g", "e", "n", "e", "r", "a", "t", "i",
      "n", "g", " ", "s", "u", "m", "m", "a", "r", "y", ":", " ">>)

extract_key_quotes(model, reply) ==
    Guarded(TryGenerate(model, reply), <<"E", "r", "r", "o", "r", " ", "e", "x", "t", "r", "a", "c", "t", "i",
      "n", "g", " ", "q", "u", "o", "t", "e", "s", ":", " ">>)

create_study_guide(model, reply) ==
    Guarded(TryGenerate(model, reply), <<"E", "r", "r", "o", "r", " ", "c", "r", "e", "a", "t", "i", "n", "g",
      " ", "s", "t", "u", "d", "y", " ", "g", "u", "i", "d", "e", ":", " ">>)

generate_qa(model, reply) ==
    Guarded(TryGenerate(model, reply), <<"E", "r", "r", "o", "r", " ", "g", "e", "n", "e", "r", "a", "t", "i",
      "n", "g", " ", "Q", "&", "A", ":", " ">>)

create_flashcards(model, reply) ==
    Guarded(TryGenerate(model, reply), <<"E", "r", "r", "o", "r", " ", "c", "r", "e", "a", "t", "i", "n", "g",
      " ", "f", "l", "a", "s", "h", "c", "a", "r", "d", "s", ":", " ">>)

highlight_insights(model, reply) ==
    Guarded(TryGenerate(model, reply), <<"E", "r", "r", "o", "r", " ", "e", "x", "t", "r", "a", "c", "t", "i",
      "n", "g", " ", "i", "n", "s", "i", "g", "h", "t", "s", ":", " ">>)

chat_with_transcript(model, reply) ==
    Guarded(TryGenerate(model, reply), <<"E", "r", "r", "o", "r", " ", "i", "n", " ", "c", "h", "a", "t", ":",
      " ">>)

Operations ==
    {"generate_summary", "extract_key_quotes", "create_study_guide",
     "generate_qa", "create_flashcards", "highlight_insights",
     "chat_with_transcript"}

\* getattr(gemini, op)(...)
Operate(op, model, reply) ==
    CASE op = "generate_summary" -> generate_summary(model, reply)
      [] op = "extract_key_quotes" -> extract_key_quotes(model, reply)
      [] op = "create_study_guide" -> create_study_guide(model, reply)
      [] op = "generate_qa" -> generate_qa(model, reply)
      [] op = "create_flashcards" -> create_flashcards(model, reply)
      [] op = "highlight_insights" -> highlight_insights(model, reply)
      [] op = "chat_with_transcript" -> chat_with_transcript(model, reply)

ApiKeys ==
    {NoneValue, Some(<<>>), Some(<<"t", "e", "s", "t", "_", "a", "p", "i", "_", "k", "e", "y">>), Some(<<"t", "e", "s", "t", "_", "k", "e", "y">>)}

ModelReplies ==
    {Reply("text", <<"T", "h", "i", "s", " ", "i", "s", " ", "a", " ", "s", "u", "m", "m",
      "a", "r", "y", ".">>),
     Reply("text", <<"T", "h", "i", "s", " ", "i", "s", " ", "a", "n", " ", "a", "n", "s",
      "w", "e", "r", ".">>),
     Reply("text", <<>>),
     Reply("generate_content", <<"A", "P", "I", " ", "E", "r", "r", "o", "r">>),
     Reply("generate_content", <<"4", "2", "9", " ", "q", "u", "o", "t", "a", " ", "e", "x", "c", "e",
      "e", "d", "e", "d">>),
     Reply("response.text", <<"r", "e", "s", "p", "o", "n", "s", "e", " ", "w", "a", "s", " ", "b",
      "l", "o", "c", "k", "e", "d">>)}

NoAi == [made |-> FALSE, api_key |-> NoneValue, model |-> NoneValue,
         op |-> <<>>, reply |-> <<>>, out |-> <<>>]

\* gemini = GeminiAI(gemini_api_key)
Construct(api_key) ==
    /\ ~ai.made
    /\ ai' = [ai EXCEPT !.made = TRUE, !.api_key = api_key,
                        !.model = GeminiAI(api_key)]
    /\ UNCHANGED <<coreVars, fetch, session, used_keys>>

\* one operation is called on the object, the remote model replying
Ask(op, reply) ==
    /\ ai.made
    /\ ai' = [ai EXCEPT !.op = <<op>>, !.reply = <<reply>>,
                        !.out = <<Operate(op, ai.model, reply)>>]
    /\ UNCHANGED <<coreVars, fetch, session, used_keys>>

(* The page (src/src/app/main.py): what it keeps in st.session_state.  The *)
(* notes are the entries st.session_state[f"note_{note_id}"], a function   *)
(* from their keys.                                                        *)

\* str(n) for n >= 0
RECURSIVE DecimalDigits(_)
DecimalDigits(n) ==
    IF n < 10 THEN <<CHOOSE c \in Digits : DigitVal(c) = n>>
    ELSE DecimalDigits(n \div 10) \o DecimalDigits(n % 10)

\* f"{n:02d}"
Format02d(n) ==
    IF n < 0 THEN <<"-">> \o DecimalDigits(0 - n)
    ELSE IF n < 10 THEN <<"0">> \o DecimalDigits(n)
    ELSE DecimalDigits(n)

\* int(start_time // 60) and int(start_time % 60): both are taken from the
\* whole seconds below start_time
WholeSeconds(start_time) == start_time.n \div Pow10(start_time.e)

\* f"[{timestamp}] {entry['text']}\n"
EntryLine(entry) ==
    <<"[">> \o Format02d(WholeSeconds(entry.start) \div 60) \o <<":">>
    \o Format02d(WholeSeconds(entry.start) % 60) \o <<"]", " ">>
    \o entry.text \o NL

\* the loop that builds transcript_text, from entry k on
RECURSIVE TextFrom(_, _)
TextFrom(transcript, k) ==
    IF k > Len(transcript) THEN <<>>
    ELSE EntryLine(transcript[k]) \o TextFrom(transcript, k + 1)

NoSession ==
    [transcript_data |-> NoneValue, transcript_text |-> <<>>,
     video_info |-> NoVideoInfo, note_counter |-> 0, notes |-> <<>>]

\* a variant of Stored that keeps the video information of the session
StoredWithoutInfo(state, transcript, info) ==
    IF Truthy(transcript)
    THEN [state EXCEPT !.transcript_data = transcript,
                       !.transcript_text = TextFrom(transcript.items, 1)]
    ELSE state

\* if transcript: ... else: ..., as the session state it leaves
Stored(state, transcript, info) ==
    IF Truthy(transcript)
    THEN [state EXCEPT !.transcript_data = transcript,
                       !.video_info = info,
                       !.transcript_text = TextFrom(transcript.items, 1)]
    ELSE state

\* the extraction handler of the page after extract_transcript returned:
\* the result is stored in the session or the failure is shown, and the
\* handler is ready for the next click
Show ==
    /\ pc = "done"
    /\ session' = Stored(session, ret.transcript, video_info)
    /\ pc' = "idle"
    /\ call' = NoCall
    /\ ret' = Return(NoneValue, <<>>)
    /\ trace' = <<>>
    /\ UNCHANGED <<TRANSCRIPT_API_AVAILABLE, YT_DLP_AVAILABLE,
                   transcript_data, video_info, installed_opener>>
    /\ UNCHANGED <<parseVars, stamp, lookup, ai, fetch, used_keys>>

\* the note buttons of the page: the prefix of the note's identifier, its
\* type and the operation that writes its content
NoteButtons ==
    {[id |-> <<"s", "u", "m", "m", "a", "r", "y">>, type |-> "Summary", op |-> "generate_summary"],
     [id |-> <<"q", "u", "o", "t", "e", "s">>, type |-> "Key Quotes", op |-> "extract_key_quotes"],
     [id |-> <<"q", "a">>, type |-> "Q&A", op |-> "generate_qa"],
     [id |-> <<"s", "t", "u", "d", "y">>, type |-> "Study Guide", op |-> "create_study_guide"],
     [id |-> <<"f", "l", "a", "s", "h", "c", "a", "r", "d", "s">>, type |-> "Flash Cards",
      op |-> "create_flashcards"],
     [id |-> <<"h", "i", "g", "h", "l", "i", "g", "h", "t", "s">>, type |-> "Highlights",
      op |-> "highlight_insights"]}

NOTE_PREFIX == <<"n", "o", "t", "e", "_">>

\* f"note_{note_id}" with note_id = f"{id}_{st.session_state.note_counter}"
NoteKey(id, note_counter) ==
    NOTE_PREFIX \o id \o <<"_">> \o DecimalDigits(note_counter)

\* st.session_state[key] = value
Assigned(notes, key, value) ==
    [k \in DOMAIN notes \cup {key} |-> IF k = key THEN value ELSE notes[k]]

\* a variant of NoteAdded that numbers the note by the notes at hand
NoteAddedByCount(state, button, summary, now) ==
    [state EXCEPT
        !.note_counter = @ + 1,
        !.notes = Assigned(@, NoteKey(button.id,
                                      Cardinality(DOMAIN state.notes) + 1),
                           [content |-> summary, type |-> button.type,
                            timestamp |-> now])]

\* st.session_state.note_counter += 1 and the assignment of the note
NoteAdded(state, button, summary, now) ==
    [state EXCEPT
        !.note_counter = @ + 1,
        !.notes = Assigned(@, NoteKey(button.id, state.note_counter + 1),
                           [content |-> summary, type |-> button.type,
                            timestamp |-> now])]

\* str.replace(old, new)
replace(s, old, new) == join(new, split(s, old))

\* del st.session_state[key]
Deleted(notes, key) == [k \in DOMAIN notes \ {key} |-> notes[k]]

\* the delete button of display_content_with_actions for the note that
\* display_notes found under key
NoteDeleted(notes, note_id) ==
    IF NOTE_PREFIX \o note_id \in DOMAIN notes
    THEN Deleted(notes, NOTE_PREFIX \o note_id)
    ELSE notes

MaxNotes == 2

\* datetime.now().strftime("%Y-%m-%d %H:%M:%S") at the clicks of a session
Ticks == {"2026-11-02 10:00:00", "2026-11-02 10:00:01"}

NoteReplies ==
    {Reply("text", <<"T", "h", "i", "s", " ", "i", "s", " ", "a", " ", "s", "u", "m", "m",
      "a", "r", "y", ".">>),
     Reply("generate_content", <<"A", "P", "I", " ", "E", "r", "r", "o", "r">>)}

\* the keys a session of up to MaxNotes notes may hold
NoteKeys == {NoteKey(button.id, n) : button \in NoteButtons, n \in 1..MaxNotes}

\* one of the six note buttons is clicked: the operation is called on a new
\* GeminiAI object, the remote model replying, and the note is stored
CreateNote(button, gemini_api_key, reply, now) ==
    /\ session.transcript_text # <<>>
    /\ Truthy(gemini_api_key)
    /\ session.note_counter < MaxNotes
    /\ session' = NoteAdded(session, button,
                            Operate(button.op, GeminiAI(gemini_api_key),
                                    reply).value, now)
    /\ used_keys' = used_keys \cup DOMAIN session'.notes
    /\ UNCHANGED <<coreVars, ai, fetch>>

\* the delete button of the note shown for key is clicked
DeleteNote(key) ==
    /\ key \in DOMAIN session.notes
    /\ session' = [session EXCEPT
                      !.notes = NoteDeleted(@, replace(key, NOTE_PREFIX, <<>>))]
    /\ UNCHANGED <<coreVars, ai, fetch, used_keys>>

\* what the page is given and what the sources answer in the sessions
\* below: a URL that resolves and one that does not, a transcript that runs
\* past the first minute and the first hour
API_LONG ==
    <<[text |-> <<"i", "n", "t", "r", "o">>, start |-> DecOfInt(0),
       duration |-> DecOfInt(5)],
      [text |-> <<"p", "a", "r", "t", " ", "t", "w", "o">>,
       start |-> Norm(755, 1), duration |-> DecOfInt(4)],
      [text |-> <<"t", "h", "e", " ", "e", "n", "d">>,
       start |-> DecOfInt(3725), duration |-> Norm(25, 1)]>>

SessionUrls == {URL_WATCH, URL_SHORT_LINK, URL_NOT_A_URL}

SessionApiOutcomes == {Raises, Returns(<<>>), Returns(API_ONE), Returns(API_LONG)}

SessionEnvs ==
    {[info |-> Info("raise", <<>>, <<>>), download |-> FALSE, files |-> <<>>],
     [info |-> Info("dict", <<>>, <<>>), download |-> FALSE,
      files |-> <<File(".vtt", TRUE, VTT_ONE)>>],
     [info |-> Info("dict", Catalogue(<<"en">>, "subtitles",
                                      "srt-after-failures"), <<>>),
      download |-> FALSE, files |-> <<>>],
     [info |-> Info("dict", <<>>,
                    Catalogue(<<"fr">>, "automatic_captions",
                              "nothing-usable")),
      download |-> FALSE, files |-> <<>>]}

-----------------------------------------------------------------------------
(* The specification of the orchestrator.                                  *)

ProbeIdle ==
    /\ stamp = NoStamp
    /\ lookup = NoLookup
    /\ ai = NoAi
    /\ fetch = NoFetch
    /\ session = NoSession
    /\ used_keys = {}

ParseIdle ==
    /\ content = NoContent
    /\ cues = <<>>
    /\ parsed = NotParsed

Init ==
    /\ TRANSCRIPT_API_AVAILABLE \in BOOLEAN
    /\ YT_DLP_AVAILABLE \in BOOLEAN
    /\ transcript_data = NoneValue
    /\ video_info = NoVideoInfo
    /\ installed_opener = NoProxy
    /\ pc = "idle"
    /\ call = NoCall
    /\ ret = Return(NoneValue, <<>>)
    /\ trace = <<>>
    /\ ParseIdle
    /\ ProbeIdle

Next ==
    \/ \E video_url \in SampleUrls, s \in SidebarOutputs :
          Invoke(video_url, s[1], s[2])
    \/ \E api \in ApiOutcomes : Primary(api)
    \/ PrimaryUnavailable
    \/ \E env \in YtdlpEnvs : Secondary(env)
    \/ SecondaryUnavailable
    \/ Rerun

Spec == Init /\ [][Next]_vars

-----------------------------------------------------------------------------
(* The specification of the parsers: caption lists of up to MaxCues        *)
(* captions are built, rendered and parsed; no extraction is running.      *)

InitParse ==
    /\ TRANSCRIPT_API_AVAILABLE = TRUE
    /\ YT_DLP_AVAILABLE = TRUE
    /\ transcript_data = NoneValue
    /\ video_info = NoVideoInfo
    /\ installed_opener = NoProxy
    /\ pc = "idle"
    /\ call = NoCall
    /\ ret = Return(NoneValue, <<>>)
    /\ trace = <<>>
    /\ ParseIdle
    /\ ProbeIdle

NextParse ==
    \/ \E caption \in Captions : AddCue(caption)
    \/ \E header \in Headers : Render(header)
    \/ ParseVtt
    \/ ParseSrt

SpecParse == InitParse /\ [][NextParse]_vars

-----------------------------------------------------------------------------
(* The specification of the parsers on timing lines with cue settings:     *)
(* as SpecParse, the captions being those of SettingsCaptions.             *)

NextSettings ==
    \/ \E caption \in SettingsCaptions : AddCue(caption)
    \/ \E header \in Headers : Render(header)
    \/ ParseVtt
    \/ ParseSrt

SpecSettings == InitParse /\ [][NextSettings]_vars

-----------------------------------------------------------------------------
(* The specification of the timestamp parsers: clock strings are written   *)
(* field by field and read by both parsers; nothing else is running.       *)

InitProbe ==
    /\ TRANSCRIPT_API_AVAILABLE = TRUE
    /\ YT_DLP_AVAILABLE = TRUE
    /\ transcript_data = NoneValue
    /\ video_info = NoVideoInfo
    /\ installed_opener = NoProxy
    /\ pc = "idle"
    /\ call = NoCall
    /\ ret = Return(NoneValue, <<>>)
    /\ trace = <<>>
    /\ ParseIdle
    /\ ProbeIdle

NextStamp ==
    \/ \E field \in FieldTexts : AddField(field)
    \/ \E frac \in FracTexts : AddFrac(frac)
    \/ ReadVtt
    \/ ReadSrt

SpecStamp == InitProbe /\ [][NextStamp]_vars

-----------------------------------------------------------------------------
(* The specification of the resolvers: a URL is entered and resolved by    *)
(* both; nothing else is running.                                          *)

NextResolve ==
    \/ \E scheme \in Schemes, shape \in Shapes, id \in SampleIds :
          Visit(scheme, shape, id)
    \/ \E scheme \in Schemes, shape \in EarlyRunShapes, id \in SampleIds :
          Visit(scheme, shape, id)
    \/ \E scheme \in Schemes, shape \in Shapes, id \in SampleIds :
          \E query \in QueriesOf(shape) : VisitWithQuery(scheme, shape, id, query)
    \/ \E url \in NoShapeInputs : VisitOther(url)
    \/ ResolveByMethod
    \/ ResolveByScript

SpecResolve == InitProbe /\ [][NextResolve]_vars

-----------------------------------------------------------------------------
(* The specification of the parsers beside the orchestrator: a subtitle    *)
(* text is at hand, written from the two captions below, and it is parsed, *)
(* and parsed again, while extractions run.                                *)

TwoCaptions ==
    <<Caption(<<CLOCK_0, CLOCK_1>>,
              <<<<"h", "e", "l", "l", "o", " ", "w", "o", "r", "l", "d">>>>),
      Caption(<<CLOCK_1, CLOCK_2_5>>,
              <<<<"<", "b", ">", "h", "i", "<", "/", "b", ">", " ", "y", "o", "u">>,
                <<"t", "h", "i", "s", " ", "i", "s", " ", "a", " ", "t", "e", "s", "t">>>>)>>

\* self._parse_vtt_content(content), for the first time or again
CallParseVtt ==
    /\ content.rendered
    /\ parsed' = [parsed EXCEPT !.vtt = Some(_parse_vtt_content(content.vtt))]
    /\ UNCHANGED <<cues, content>>
    /\ UNCHANGED <<orchVars, probeVars>>

\* self._parse_srt_content(content), for the first time or again
CallParseSrt ==
    /\ content.rendered
    /\ parsed' = [parsed EXCEPT !.srt = Some(_parse_srt_content(content.srt))]
    /\ UNCHANGED <<cues, content>>
    /\ UNCHANGED <<orchVars, probeVars>>

InitReparse ==
    /\ TRANSCRIPT_API_AVAILABLE \in BOOLEAN
    /\ YT_DLP_AVAILABLE \in BOOLEAN
    /\ transcript_data = NoneValue
    /\ video_info = NoVideoInfo
    /\ installed_opener = NoProxy
    /\ pc = "idle"
    /\ call = NoCall
    /\ ret = Return(NoneValue, <<>>)
    /\ trace = <<>>
    /\ cues = TwoCaptions
    /\ content = [rendered |-> TRUE, header |-> <<HEADER_WEBVTT>>,
                  vtt |-> RenderVtt(<<HEADER_WEBVTT>>, TwoCaptions),
                  srt |-> RenderSrt(TwoCaptions)]
    /\ parsed = NotParsed
    /\ ProbeIdle

NextReparse ==
    \/ Next
    \/ CallParseVtt
    \/ CallParseSrt

SpecReparse == InitReparse /\ [][NextReparse]_vars

-----------------------------------------------------------------------------
(* The specification of the page's notes: in a session that holds an       *)
(* extracted transcript, up to MaxNotes notes are created, and notes are   *)
(* deleted.                                                                *)

InitNotes ==
    /\ TRANSCRIPT_API_AVAILABLE = TRUE
    /\ YT_DLP_AVAILABLE = TRUE
    /\ transcript_data = NoneValue
    /\ video_info = NoVideoInfo
    /\ installed_opener = NoProxy
    /\ pc = "idle"
    /\ call = NoCall
    /\ ret = Return(NoneValue, <<>>)
    /\ trace = <<>>
    /\ ParseIdle
    /\ stamp = NoStamp
    /\ lookup = NoLookup
    /\ ai = NoAi
    /\ fetch = NoFetch
    /\ session = Stored(NoSession, Some(API_ONE),
                        [NoVideoInfo EXCEPT
                            !.keys = {"video_id", "url", "extracted_at"},
                            !.video_id = <<"d", "Q", "w", "4", "w", "9", "W",
                                           "g", "X", "c", "Q">>,
                            !.url = URL_WATCH])
    /\ used_keys = {}

NextNotes ==
    \/ \E button \in NoteButtons, gemini_api_key \in ApiKeys,
          reply \in NoteReplies, now \in Ticks :
          CreateNote(button, gemini_api_key, reply, now)
    \/ \E key \in NoteKeys : DeleteNote(key)

SpecNotes == InitNotes /\ [][NextNotes]_vars

-----------------------------------------------------------------------------
(* The specification of the generative-AI content module: an object is     *)
(* made from an API key and its operations are called; nothing else is     *)
(* running.                                                                *)

NextGemini ==
    \/ \E api_key \in ApiKeys : Construct(api_key)
    \/ \E op \in Operations, reply \in ModelReplies : Ask(op, reply)

-----------------------------------------------------------------------------
(* The specification of the page's extraction handler: URLs are entered    *)
(* and extracted one after the other in one session, each result being     *)
(* stored or shown before the next click.                                  *)

NextSession ==
    \/ \E video_url \in SessionUrls : Invoke(video_url, FALSE, NoProxy)
    \/ \E api \in SessionApiOutcomes : Primary(api)
    \/ PrimaryUnavailable
    \/ \E env \in SessionEnvs : Secondary(env)
    \/ SecondaryUnavailable
    \/ Show

SpecSession == Init /\ [][NextSession]_vars

SpecGemini == InitProbe /\ [][NextGemini]_vars

-----------------------------------------------------------------------------
(* The specification of the secondary source adapter: it is called once    *)
(* for a video; nothing else is running.                                   *)

NextFetch ==
    \E env \in MetadataEnvs \cup YtdlpEnvs :
        Fetch(<<"d", "Q", "w", "4", "w", "9", "W", "g", "X", "c", "Q">>, env)

SpecFetch == InitProbe /\ [][NextFetch]_vars

-----------------------------------------------------------------------------
(* Properties of the orchestrator, checked under Spec.                     *)

\* the requests of the running call that belong to the secondary source
SecondaryOps ==
    {"TemporaryDirectory.enter", "TemporaryDirectory.exit", "extract_info",
     "download", "urlopen"}

Requests(ops) == SelectSeq(trace, LAMBDA e : e.op \in ops)

PrimarySucceeded == call.api_called /\ Truthy(call.api_result)

PrimaryFailed == call.api_called /\ ~Truthy(call.api_result)

SecondaryFailed == call.ytdlp_called /\ ~Truthy(call.ytdlp_result)

\* C1: whenever the primary source returned a non-empty transcript, the
\* secondary source is not invoked in that call (it makes no request), and
\* the call returns the primary's segments with a status that contains
\* "Success using YouTube Transcript API"
C1_PrimarySuccessEndsTheCall ==
    PrimarySucceeded =>
        /\ ~call.ytdlp_called
        /\ Requests(SecondaryOps) = <<>>
        /\ pc = "done"
        /\ ret.transcript = call.api_result
        /\ Contains(ret.status, SUCCESS_API)

C1_Witness ==
    /\ pc = "done"
    /\ PrimarySucceeded
    /\ ret.transcript = Some(API_TWO)

\* C2: when the primary source failed (None, an empty list, or an exception
\* caught in its adapter) and the secondary source returned a non-empty
\* transcript, the call returns exactly the secondary's segments with a
\* status that contains "Success using yt-dlp"
C2_FallbackReturnsSecondarySegments ==
    (pc = "done" /\ PrimaryFailed /\ call.ytdlp_called
       /\ Truthy(call.ytdlp_result)) =>
        /\ ret.transcript = call.ytdlp_result
        /\ Contains(ret.status, SUCCESS_YTDLP)

C2_Witness ==
    /\ pc = "done"
    /\ call.api_called
    /\ call.api_raised
    /\ call.ytdlp_called
    /\ Truthy(call.ytdlp_result)
    /\ ret.transcript = call.ytdlp_result

\* C3 as stated: whatever fails, each of the two adapters returns None, and
\* when both sources fail the call returns (None, "Both transcript
\* extraction methods failed")
C3_EveryFailureIsNone ==
    /\ PrimaryFailed => call.api_result.isNone
    /\ SecondaryFailed => call.ytdlp_result.isNone
    /\ (pc = "done" /\ Truthy(call.video_id) /\ ~Truthy(call.api_result)
          /\ ~Truthy(call.ytdlp_result)) =>
            ret = Return(NoneValue, BOTH_FAILED)

\* C3, amended: get_transcript_ytdlp returns None whenever it fails;
\* get_transcript_youtube_api returns None when the API raises and hands on
\* what the API answered otherwise, an empty list included; and when both
\* sources fail the call returns (None, "Both transcript extraction methods
\* failed")
C3_FailuresEndInAbsence ==
    /\ (call.api_called /\ call.api_raised) => call.api_result.isNone
    /\ (call.api_called /\ ~call.api_raised) => ~call.api_result.isNone
    /\ SecondaryFailed => call.ytdlp_result.isNone
    /\ (pc = "done" /\ Truthy(call.video_id) /\ ~Truthy(call.api_result)
          /\ ~Truthy(call.ytdlp_result)) =>
            ret = Return(NoneValue, BOTH_FAILED)

C3_Witness ==
    /\ pc = "done"
    /\ call.api_called
    /\ call.api_result = Some(<<>>)
    /\ SecondaryFailed
    /\ ret = Return(NoneValue, BOTH_FAILED)

SUCCESS == <<"S", "u", "c", "c", "e", "s", "s">>

Succeeded == pc = "done" /\ startswith(ret.status, SUCCESS)

\* C4: the call never returns an empty segment sequence with a success
\* status: the status starts with "Success" exactly when the returned
\* transcript is a non-empty sequence, and otherwise the returned transcript
\* is None
C4_SuccessIffNonEmptyTranscript ==
    pc = "done" =>
        /\ startswith(ret.status, SUCCESS) <=> Truthy(ret.transcript)
        /\ ~startswith(ret.status, SUCCESS) => ret.transcript.isNone

C4_Witness ==
    /\ pc = "done"
    /\ call.api_called
    /\ call.api_result = Some(<<>>)
    /\ ~call.ytdlp_called
    /\ ~startswith(ret.status, SUCCESS)
    /\ ret.transcript.isNone

\* the sample URLs that hold no identifier
UnresolvableUrls == {URL_NO_ID, URL_NOT_A_URL}

\* C5: when the identifier cannot be resolved from the URL, the call fails
\* fast: it returns (None, "Invalid YouTube URL") and invokes neither the
\* primary nor the secondary source
C5_UnresolvedUrlFailsFast ==
    (pc # "idle" /\ call.video_url \in UnresolvableUrls) =>
        /\ pc = "done"
        /\ ret = Return(NoneValue, INVALID_URL)
        /\ ~call.api_called
        /\ ~call.ytdlp_called
        /\ trace = <<>>

C5_Witness ==
    /\ pc = "done"
    /\ call.video_url = URL_NO_ID
    /\ ret = Return(NoneValue, INVALID_URL)

\* C6: within one call there are no retries: the primary source makes at
\* most one request and the secondary source is entered at most once (one
\* temporary directory, one extract_info, one download), no request of the
\* primary follows a request of the secondary, and the secondary is invoked
\* only after the primary has failed or when it is unavailable
C6_EachSourceAtMostOnce ==
    /\ Len(Requests({"get_transcript"})) = (IF call.api_called THEN 1 ELSE 0)
    /\ Len(Requests({"TemporaryDirectory.enter"}))
         = (IF call.ytdlp_called THEN 1 ELSE 0)
    /\ Len(Requests({"extract_info"})) <= 1
    /\ Len(Requests({"download"})) <= 1
    /\ \A i, j \in 1..Len(trace) :
         (i < j /\ trace[i].op \in SecondaryOps) =>
             trace[j].op \in SecondaryOps
    /\ (call.ytdlp_called \/ Requests(SecondaryOps) # <<>>) =>
         (PrimaryFailed \/ ~TRANSCRIPT_API_AVAILABLE)

C6_Witness ==
    /\ pc = "done"
    /\ call.proxy_config # NoProxy
    /\ call.api_raised
    /\ Len(Requests({"get_transcript"})) = 1
    /\ Len(Requests({"extract_info"})) = 1
    /\ Len(Requests({"urlopen"})) >= 2

\* the proxy the request to the succeeding source went through
SucceedingVia ==
    IF PrimarySucceeded THEN Requests({"get_transcript"})[1].via
    ELSE Requests({"extract_info"})[1].via

\* C7: on success the status says " (with proxy)" exactly when the request
\* to the succeeding source was made through a proxy, that is, when
\* use_proxy is set and a proxy URI was configured
C7_ProxyNoteIffProxyUsed ==
    Succeeded =>
        /\ Contains(ret.status, WITH_PROXY) <=> SucceedingVia # NoProxy
        /\ SucceedingVia # NoProxy
             <=> (call.use_proxy /\ call.proxy_config # NoProxy)

-----------------------------------------------------------------------------
(* Properties of the parsers, checked under SpecParse.                     *)

VttDone == ~parsed.vtt.isNone

SrtDone == ~parsed.srt.isNone

\* the text lines of a caption with their tags removed
TagStripped(lines) == [k \in 1..Len(lines) |-> re_sub_tags(lines[k])]

NonEmptyOnes(lines) == SelectSeq(lines, LAMBDA line : line # <<>>)

\* the segment a cue stands for, its text being the given lines joined by a
\* single space
SegmentOf(caption, lines) ==
    Segment(join(SPACE, lines), _parse_timestamp(VttClock(caption.start)),
            _parse_timestamp(VttClock(caption.end)))

\* C8 as stated: a WebVTT file of header lines and N cues, each a timing
\* line and one or more non-blank text lines, parses to exactly N segments
\* in source order, segment k having the cue's tag-stripped text lines
\* joined by a single space, the parsed start, and duration = end - start
C8_EveryCueYieldsItsSegment ==
    VttDone =>
        parsed.vtt.items =
            [k \in 1..Len(cues) |->
                SegmentOf(cues[k], TagStripped(cues[k].lines))]

\* a text line of the caption is left with text once its tags are removed
HasText(caption) == NonEmptyOnes(TagStripped(caption.lines)) # <<>>

\* C8, amended: when every cue has a text line that is non-empty once its
\* tags are stripped, the file parses to exactly N segments in source
\* order, segment k having those of the cue's tag-stripped text lines that
\* are non-empty joined by a single space, the parsed start, and
\* duration = end - start
C8_CuesWithTextYieldTheirSegments ==
    (VttDone /\ \A k \in 1..Len(cues) : HasText(cues[k])) =>
        parsed.vtt.items =
            [k \in 1..Len(cues) |->
                SegmentOf(cues[k], NonEmptyOnes(TagStripped(cues[k].lines)))]

C8_Witness ==
    /\ VttDone
    /\ Len(content.header) = 3
    /\ Len(cues) = MaxCues
    /\ \A k \in 1..Len(cues) : HasText(cues[k])
    /\ \E k \in 1..Len(cues) : cues[k].lines = <<<<"<", "i", ">">>, <<"x">>>>
    /\ Len(parsed.vtt.items) = MaxCues

\* the clocks of every caption are clock strings
WellFormed(captions) ==
    \A k \in 1..Len(captions) :
        captions[k].start \in ValidClocks /\ captions[k].end \in ValidClocks

\* C9 as stated: for every well-formed caption list, the SRT parse of its
\* SRT rendering is the same segment sequence as the WebVTT parse of its
\* WebVTT rendering
C9_SrtAgreesWithVtt ==
    (VttDone /\ SrtDone /\ WellFormed(cues)) => parsed.srt = parsed.vtt

\* every text line of the caption keeps some text once its tags are removed,
\* and no "<" is left in it
PlainOnceStripped(caption) ==
    \A k \in 1..Len(caption.lines) :
        /\ re_sub_tags(caption.lines[k]) # <<>>
        /\ ~Contains(re_sub_tags(caption.lines[k]), <<"<">>)

\* C9, amended: for every well-formed caption list in which every text line
\* keeps some text once its tags are removed and holds no "<" outside a
\* tag, the SRT parse of its SRT rendering is the same segment sequence as
\* the WebVTT parse of its WebVTT rendering
C9_SrtAgreesWithVttOnPlainLines ==
    (VttDone /\ SrtDone /\ WellFormed(cues)
       /\ \A k \in 1..Len(cues) : PlainOnceStripped(cues[k])) =>
        parsed.srt = parsed.vtt

C9_Witness ==
    /\ VttDone
    /\ SrtDone
    /\ WellFormed(cues)
    /\ Len(cues) = MaxCues
    /\ \A k \in 1..Len(cues) : PlainOnceStripped(cues[k])
    /\ \E k \in 1..Len(cues) : Len(cues[k].lines) = 2
    /\ cues[1].start # cues[MaxCues].start
    /\ Len(parsed.srt.items) = MaxCues
    /\ parsed.srt = parsed.vtt

\* the captions whose clocks are clock strings
WithValidClocks(captions) ==
    SelectSeq(captions,
              LAMBDA c : c.start \in ValidClocks /\ c.end \in ValidClocks)

\* C10: in both parsers a cue or block whose timing line holds "-->" but a
\* start or end that is no clock string is dropped: the segments emitted are
\* those emitted when the bad cue is absent
C10_UnparseableCueIsDropped ==
    /\ VttDone =>
         parsed.vtt.items =
             _parse_vtt_content(RenderVtt(content.header,
                                          WithValidClocks(cues)))
    /\ SrtDone =>
         parsed.srt.items =
             _parse_srt_content(RenderSrt(WithValidClocks(cues)))

\* the start values of a segment sequence never decrease
StartsAscend(segments) ==
    \A k \in 1..(Len(segments) - 1) :
        DecLeq(segments[k].start, segments[k + 1].start)

\* C11 as stated: for every input, the segment sequence returned by
\* _parse_vtt_content and by _parse_srt_content is in non-decreasing start
\* order
C11_StartsNeverDecrease ==
    /\ VttDone => StartsAscend(parsed.vtt.items)
    /\ SrtDone => StartsAscend(parsed.srt.items)

\* the start values of the cues as the timestamp parsers read their clocks
VttStarts ==
    [k \in 1..Len(cues) |-> _parse_timestamp(VttClock(cues[k].start))]

SrtStarts ==
    [k \in 1..Len(cues) |-> _parse_srt_timestamp(SrtClock(cues[k].start))]

\* the values of the sequence never decrease
Ascends(values) ==
    \A k \in 1..(Len(values) - 1) : DecLeq(values[k], values[k + 1])

\* C11, amended: for every input whose cues follow one another in
\* non-decreasing start order, as the timestamp parsers read their clocks,
\* the segment sequence returned by _parse_vtt_content and by
\* _parse_srt_content is in non-decreasing start order
C11_SourceOrderIsKept ==
    /\ (VttDone /\ Ascends(VttStarts)) =>
           StartsAscend(parsed.vtt.items)
    /\ (SrtDone /\ Ascends(SrtStarts)) =>
           StartsAscend(parsed.srt.items)

C11_Witness ==
    /\ VttDone
    /\ SrtDone
    /\ Len(cues) = MaxCues
    /\ Ascends(VttStarts)
    /\ Ascends(SrtStarts)
    /\ Len(parsed.vtt.items) = MaxCues
    /\ Len(parsed.srt.items) = MaxCues
    /\ parsed.vtt.items[1].start # parsed.vtt.items[MaxCues].start
    /\ parsed.srt.items[1].start # parsed.srt.items[MaxCues].start

\* every segment of the sequence has some text
AllHaveText(segments) ==
    \A k \in 1..Len(segments) : segments[k].text # <<>>

\* the text of the block is left with something once its tags are removed
BlockHasText(caption) == re_sub_tags(join(SPACE, caption.lines)) # <<>>

\* C12: every segment emitted by _parse_vtt_content or _parse_srt_content
\* has a non-empty text after tag stripping, and a cue or block whose text
\* is empty once inline tags are removed produces no segment: the segments
\* are as many as the cues left with text
C12_NoSegmentWithoutText ==
    /\ VttDone =>
         /\ AllHaveText(parsed.vtt.items)
         /\ Len(parsed.vtt.items) = Len(SelectSeq(cues, HasText))
    /\ SrtDone =>
         /\ AllHaveText(parsed.srt.items)
         /\ Len(parsed.srt.items) = Len(SelectSeq(cues, BlockHasText))

C12_Witness ==
    /\ VttDone
    /\ SrtDone
    /\ Len(cues) = MaxCues
    /\ ~HasText(cues[1])
    /\ ~BlockHasText(cues[1])
    /\ HasText(cues[MaxCues])
    /\ Len(parsed.vtt.items) = 1
    /\ Len(parsed.srt.items) = 1

-----------------------------------------------------------------------------
(* Properties of the timestamp parsers, checked under SpecStamp.           *)

IsDigits(s) == s # <<>> /\ \A k \in 1..Len(s) : s[k] \in Digits

\* every field of the clock string is a run of digits, and so is its
\* fractional part
DigitFields == \A k \in 1..Len(stamp.fields) : IsDigits(stamp.fields[k])

DigitFrac == ~stamp.frac.isNone /\ IsDigits(stamp.frac.items)

\* H*3600 + M*60 + S + 0.F, and M*60 + S + 0.F
SecondsOf(fields, F) ==
    DecAdd(DecOfInt(IF Len(fields) = 3
                    THEN DigitsVal(fields[1], Len(fields[1])) * 3600
                         + DigitsVal(fields[2], Len(fields[2])) * 60
                         + DigitsVal(fields[3], Len(fields[3]))
                    ELSE DigitsVal(fields[1], Len(fields[1])) * 60
                         + DigitsVal(fields[2], Len(fields[2]))),
           Norm(DigitsVal(F, Len(F)), Len(F)))

\* C13: for a clock string of digit fields H, M, S and fractional digits F
\* both parsers return H*3600 + M*60 + S + 0.F, the digits read as a decimal
\* fraction; with two fields _parse_timestamp returns M*60 + S + 0.F and
\* _parse_srt_timestamp does not accept the string (it returns 0.0)
C13_ClockIsReadAsSeconds ==
    (DigitFields /\ DigitFrac) =>
        /\ (Len(stamp.fields) \in {2, 3} /\ stamp.vtt # <<>>) =>
               stamp.vtt[1] = SecondsOf(stamp.fields, stamp.frac.items)
        /\ (Len(stamp.fields) = 3 /\ stamp.srt # <<>>) =>
               stamp.srt[1] = SecondsOf(stamp.fields, stamp.frac.items)
        /\ (Len(stamp.fields) = 2 /\ stamp.srt # <<>>) =>
               stamp.srt[1] = Zero

\* "00:01:30.5" and "00:01:30,5" are read as 90.5
C13_Witness ==
    /\ stamp.fields = <<<<"0", "0">>, <<"0", "1">>, <<"3", "0">>>>
    /\ stamp.frac = Some(<<"5">>)
    /\ stamp.vtt = <<Norm(905, 1)>>
    /\ stamp.srt = <<Norm(905, 1)>>

\* the clock string is well formed for a parser that accepts the given
\* numbers of fields: digit fields, and digits after the delimiter if any
WellFormedClock(fields) ==
    /\ Len(stamp.fields) \in fields
    /\ DigitFields
    /\ stamp.frac.isNone \/ IsDigits(stamp.frac.items)

\* C14: for every input string that is not a well-formed clock string
\* (wrong number of colon fields, non-numeric component, non-numeric
\* fractional part, trailing text) _parse_timestamp and
\* _parse_srt_timestamp return 0.0
C14_MalformedReadsAsZero ==
    /\ (stamp.vtt # <<>> /\ ~WellFormedClock({2, 3})) => stamp.vtt[1] = Zero
    /\ (stamp.srt # <<>> /\ ~WellFormedClock({3})) => stamp.srt[1] = Zero

\* C15: for every input string, the value returned by _parse_timestamp and
\* _parse_srt_timestamp is non-negative, inputs whose numeric fields carry
\* a sign included
C15_NeverNegative ==
    /\ stamp.vtt # <<>> => DecLeq(Zero, stamp.vtt[1])
    /\ stamp.srt # <<>> => DecLeq(Zero, stamp.srt[1])

-----------------------------------------------------------------------------
(* Properties of the resolvers, checked under SpecResolve.                 *)

\* C16: for every identifier id of 11 characters over [0-9A-Za-z_-],
\* extract_video_id returns exactly id for each of the URL shapes
\* watch?v=id, youtu.be/id, /shorts/id and /embed/id
C16_EveryShapeResolvesToItsId ==
    lookup.id # <<>> =>
        /\ lookup.method # <<>> => lookup.method[1] = Some(lookup.id)
        /\ lookup.script # <<>> => lookup.script[1] = Some(lookup.id)

\* C17: when no URL pattern matches the input, extract_video_id returns the
\* absence value and never the unmatched input or any other string
C17_NoMatchIsAbsence ==
    lookup.url \in NoShapeInputs =>
        /\ lookup.method # <<>> => lookup.method[1] = NoneValue
        /\ lookup.script # <<>> => lookup.script[1] = NoneValue

-----------------------------------------------------------------------------
(* Further properties of the orchestrator, checked under Spec.             *)

\* the positions in the trace of the running call where op was done
Positions(op) == {k \in 1..Len(trace) : trace[k].op = op}

\* C18: the temporary directory acquired by get_transcript_ytdlp is
\* released on every exit path of the call, whether a transcript came from
\* a downloaded file or from a remote track, None was returned or the
\* downloader or the file processing raised: once the call has returned no
\* temporary directory acquired by it is still held, it is acquired at most
\* once per call, and every request of the secondary source is made while
\* it is held
C18_TempDirIsReleased ==
    /\ Cardinality(Positions("TemporaryDirectory.enter")) <= 1
    /\ Cardinality(Positions("TemporaryDirectory.exit"))
           = Cardinality(Positions("TemporaryDirectory.enter"))
    /\ call.ytdlp_called =>
           /\ Positions("TemporaryDirectory.enter") # {}
           /\ Positions("TemporaryDirectory.exit") = {Len(trace)}
           /\ \A k \in Positions("extract_info") \cup Positions("download")
                         \cup Positions("urlopen") :
                  \A e \in Positions("TemporaryDirectory.enter") : e < k

\* a transcript came from a remote track, after a download that left no
\* usable file
C18_Witness ==
    /\ call.ytdlp_called
    /\ Truthy(call.ytdlp_result)
    /\ Positions("urlopen") # {}
    /\ Cardinality(Positions("TemporaryDirectory.enter")) = 1
    /\ Positions("TemporaryDirectory.exit") = {Len(trace)}

\* the route the running call asked for: its proxy, or none
OwnRoute ==
    IF call.use_proxy /\ call.proxy_config # NoProxy
    THEN call.proxy_config ELSE NoProxy

\* C19: two orchestrator invocations, run one after the other, are
\* independent: the network route of one is not affected by the other, so
\* every subtitle track a call fetches goes by the route that call asked
\* for, and a call made without a proxy fetches its tracks without one
\* whatever the calls before it were made with
C19_CallsAreIndependent ==
    \A k \in Positions("urlopen") : trace[k].via = OwnRoute

-----------------------------------------------------------------------------
(* Properties of the parsers beside the orchestrator, checked under        *)
(* SpecReparse.                                                            *)

-----------------------------------------------------------------------------
(* Properties of the generative-AI content module, checked under           *)
(* SpecGemini.                                                             *)

\* the prefix each operation puts before the exception's message
PrefixOf(op) ==
    CASE op = "generate_summary" -> <<"E", "r", "r", "o", "r", " ", "g", "e", "n", "e", "r", "a", "t", "i",
      "n", "g", " ", "s", "u", "m", "m", "a", "r", "y", ":", " ">>
      [] op = "extract_key_quotes" -> <<"E", "r", "r", "o", "r", " ", "e", "x", "t", "r", "a", "c", "t", "i",
      "n", "g", " ", "q", "u", "o", "t", "e", "s", ":", " ">>
      [] op = "create_study_guide" -> <<"E", "r", "r", "o", "r", " ", "c", "r", "e", "a", "t", "i", "n", "g",
      " ", "s", "t", "u", "d", "y", " ", "g", "u", "i", "d", "e", ":", " ">>
      [] op = "generate_qa" -> <<"E", "r", "r", "o", "r", " ", "g", "e", "n", "e", "r", "a", "t", "i",
      "n", "g", " ", "Q", "&", "A", ":", " ">>
      [] op = "create_flashcards" -> <<"E", "r", "r", "o", "r", " ", "c", "r", "e", "a", "t", "i", "n", "g",
      " ", "f", "l", "a", "s", "h", "c", "a", "r", "d", "s", ":", " ">>
      [] op = "highlight_insights" -> <<"E", "r", "r", "o", "r", " ", "e", "x", "t", "r", "a", "c", "t", "i",
      "n", "g", " ", "i", "n", "s", "i", "g", "h", "t", "s", ":", " ">>
      [] op = "chat_with_transcript" -> <<"E", "r", "r", "o", "r", " ", "i", "n", " ", "c", "h", "a", "t", ":",
      " ">>

Asked == ai.out # <<>>

ModelCallSucceeds == is_configured(ai.model) /\ ai.reply[1].kind = "text"

\* the message of the exception the model call ends with
ExceptionMessage ==
    IF is_configured(ai.model) THEN ai.reply[1].text ELSE NO_MODEL_MESSAGE

\* C21: every generation operation returns the model's response text when
\* the model call succeeds, and when the model call raises or the model is
\* unconfigured it returns the operation's prefix followed by the
\* exception's message; none of them raises
C21_TextOrPrefixedError ==
    Asked =>
        /\ ~ai.out[1].raises
        /\ ModelCallSucceeds => ai.out[1].value = ai.reply[1].text
        /\ ~ModelCallSucceeds =>
               ai.out[1].value = PrefixOf(ai.op[1]) \o ExceptionMessage

\* the chat operation was called on a configured object and the model
\* call raised
C21_Witness ==
    /\ Asked
    /\ ai.op = <<"chat_with_transcript">>
    /\ is_configured(ai.model)
    /\ ai.reply[1].kind = "generate_content"
    /\ ai.out[1].value = <<"E", "r", "r", "o", "r", " ", "i", "n", " ", "c", "h", "a", "t", ":",
      " ", "A", "P", "I", " ", "E", "r", "r", "o", "r">>

-----------------------------------------------------------------------------
(* Further properties of the resolvers, checked under SpecResolve.         *)

\* what the generic fallback pattern, v= or "/" before the identifier,
\* yields on its own
GenericAlone(url) == re_search(<<<<"v", "=">>, <<"/">>>>, url)

\* an earlier part of the URL matches the generic fallback
EarlierRun == lookup.id # <<>> /\ GenericAlone(lookup.url) # Some(lookup.id)

\* C22: the specific shapes are tried before the generic fallback, first
\* match winning: a URL of a specific shape resolves to the identifier
\* after that shape's marker even when an earlier part of the URL, such as
\* eleven identifier characters right after a "/" in the host or path,
\* would match the generic fallback
C22_SpecificShapeBeforeFallback ==
    EarlierRun =>
        /\ lookup.method # <<>> => lookup.method[1] = Some(lookup.id)
        /\ lookup.script # <<>> => lookup.script[1] = Some(lookup.id)

\* the URL is of the shorts shape
IsShortsUrl == Contains(lookup.url, <<"/", "s", "h", "o", "r", "t", "s", "/">>)

\* what extract_video_id of app.py returns when the stripping step is left
\* out
WithoutCut(url) == AppFirstMatch(strip(url), 1)

\* C25: for a shorts URL the query string is stripped before matching, so
\* /shorts/<id>?<query> resolves to <id>; URLs of the other shapes resolve
\* exactly as they would without the stripping step
C25_OnlyShortsAreStripped ==
    lookup.id # <<>> =>
        /\ lookup.script # <<>> =>
               IF IsShortsUrl
               THEN lookup.script[1] = Some(lookup.id)
               ELSE lookup.script[1] = WithoutCut(lookup.url)
        /\ lookup.method # <<>> /\ IsShortsUrl =>
               lookup.method[1] = Some(lookup.id)

-----------------------------------------------------------------------------
(* Properties of the secondary source adapter, checked under SpecFetch.    *)

\* the call reached the lookup in the info dict: extract_info returned a
\* dict, the download did not raise and left no usable subtitle file
LookupReached ==
    /\ fetch.asked
    /\ fetch.env[1].info.kind = "dict"
    /\ ~fetch.env[1].download
    /\ FromFiles(fetch.env[1].files, 1).isNone

Regular == fetch.env[1].info.subtitles

AutoGenerated == fetch.env[1].info.automatic_captions

\* the URLs the call fetched, in order; a URL names its bucket, language
\* and format
FetchedUrls ==
    [k \in 1..Len(SelectSeq(fetch.out[1].events,
                            LAMBDA e : e.op = "urlopen")) |->
        SelectSeq(fetch.out[1].events, LAMBDA e : e.op = "urlopen")[k].url]

\* the (bucket, language) pairs whose tracks were fetched
FetchedLists == {<<FetchedUrls[k][1], FetchedUrls[k][2]>> : k \in 1..Len(FetchedUrls)}

ClaimedCodes == <<"en", "en-US", "en-GB">>

\* the positions of the preferred codes that exist in either bucket
CodesPresent ==
    {l \in 1..Len(ClaimedCodes) :
        HasLang(Regular, ClaimedCodes[l]) \/ HasLang(AutoGenerated, ClaimedCodes[l])}

\* the track list the claimed rule picks, as (bucket, language)
ClaimedChoice ==
    IF CodesPresent # {}
    THEN <<IF HasLang(Regular, ClaimedCodes[Min(CodesPresent)])
           THEN "subtitles" ELSE "automatic_captions",
           ClaimedCodes[Min(CodesPresent)]>>
    ELSE IF Regular # <<>> THEN <<"subtitles", Regular[1][1]>>
    ELSE <<"automatic_captions", AutoGenerated[1][1]>>

\* C23: in the metadata lookup the track is chosen by trying en, en-US,
\* en-GB in that order over the regular and the auto-generated bucket, and
\* a non-preferred language, the first available one, is used only when
\* none of the three codes exists in either bucket
C23_PreferredCodesFirst ==
    LookupReached /\ FetchedUrls # <<>> =>
        /\ FetchedLists = {ClaimedChoice}
        /\ ClaimedChoice[2] \notin {"en", "en-US", "en-GB"} => CodesPresent = {}

\* en-GB is the only preferred code at hand, in the auto-generated bucket and
\* after another language, while the regular bucket holds other languages
C23_Witness ==
    /\ LookupReached
    /\ FetchedLists = {<<"automatic_captions", "en-GB">>}
    /\ Len(Regular) = 2
    /\ AutoGenerated[1][1] = "fr"

\* the track list the call handed to _download_and_parse_subtitle
Chosen == SelectTracks(Regular, AutoGenerated, 1).items

ClaimedFormats == <<"vtt", "srv3", "srv2", "srv1", "srt">>

FormatRank(ext) == CHOOSE p \in 1..Len(ClaimedFormats) : ClaimedFormats[p] = ext

\* the tracks that can be tried: of a preferred format and with a URL
Eligible ==
    {k \in 1..Len(Chosen) :
        /\ Chosen[k].url # <<>>
        /\ \E p \in 1..Len(ClaimedFormats) : ClaimedFormats[p] = Chosen[k].ext}

\* track j is tried before track k: format preference, then list order
TriedBefore(j, k) ==
    \/ FormatRank(Chosen[j].ext) < FormatRank(Chosen[k].ext)
    \/ FormatRank(Chosen[j].ext) = FormatRank(Chosen[k].ext) /\ j < k

\* the tracks that were fetched
FetchedTracks ==
    {k \in 1..Len(Chosen) : \E a \in 1..Len(FetchedUrls) : FetchedUrls[a] = Chosen[k].url}

\* the download of track k succeeds and parses to a non-empty sequence
Usable(k) ==
    ~Chosen[k].raises /\ ParseByFormat(Chosen[k].ext, Chosen[k].body) # <<>>

TrackOfUrl(url) == CHOOSE k \in 1..Len(Chosen) : Chosen[k].url = url

\* C24: _download_and_parse_subtitle tries the tracks of the chosen
\* language in the order vtt, srv3, srv2, srv1, srt and in list order within
\* a format, skips tracks without a URL, moves on when a download or parse
\* raises or yields no segments, returns the segments of the first track
\* that parses to a non-empty sequence and None when no track does, and
\* fetches each track at most once
C24_TracksInPreferenceOrder ==
    LookupReached /\ Chosen # <<>> =>
        /\ \A a \in 1..Len(FetchedUrls) :
               \E k \in Eligible : Chosen[k].url = FetchedUrls[a]
        /\ \A a, b \in 1..Len(FetchedUrls) :
               a < b => /\ FetchedUrls[a] # FetchedUrls[b]
                        /\ TriedBefore(TrackOfUrl(FetchedUrls[a]),
                                       TrackOfUrl(FetchedUrls[b]))
        /\ \A k \in FetchedTracks, j \in Eligible :
               TriedBefore(j, k) => j \in FetchedTracks /\ ~Usable(j)
        /\ \A k \in FetchedTracks :
               Usable(k) =>
                   fetch.out[1].result =
                       Some(ParseByFormat(Chosen[k].ext, Chosen[k].body))
        /\ (\A k \in FetchedTracks : ~Usable(k)) =>
               /\ fetch.out[1].result = NoneValue
               /\ FetchedTracks = Eligible

\* the first vtt track parsed to nothing, the second vtt track was used, and
\* the srt track listed between them was not fetched
C24_Witness ==
    /\ LookupReached
    /\ Len(FetchedUrls) = 2
    /\ FetchedUrls[1][3] = "vtt"
    /\ FetchedUrls[2][3] = "vtt"
    /\ Len(Chosen) = 3
    /\ Chosen[2].ext = "srt"
    /\ Truthy(fetch.out[1].result)

\* what _download_and_parse_subtitle returns for a track list
ResultFor(tracks) ==
    _download_and_parse_subtitle(tracks, FALSE, NoProxy, NoProxy).result

\* the track lists of the info dict, both buckets, every language
AllLists ==
    {Regular[k][2] : k \in 1..Len(Regular)}
    \cup {AutoGenerated[k][2] : k \in 1..Len(AutoGenerated)}

\* C27: in the metadata lookup at most one language track list is handed to
\* _download_and_parse_subtitle per call, and its result is the result of
\* the secondary source even when it is None: the other bucket of the
\* language, the remaining preferred codes and the other languages are not
\* tried
C27_OneTrackListPerCall ==
    LookupReached /\ AllLists # {} =>
        /\ Cardinality(FetchedLists) <= 1
        /\ FetchedLists \subseteq {ClaimedChoice}
        /\ fetch.out[1].result = ResultFor(Chosen)

\* the regular en tracks yield nothing and the call returns None, although
\* the auto-generated bucket holds tracks, for en-GB, that yield a transcript
C27_Witness ==
    /\ LookupReached
    /\ FetchedLists = {<<"subtitles", "en">>}
    /\ fetch.out[1].result = NoneValue
    /\ \E tracks \in AllLists : Truthy(ResultFor(tracks))
    /\ HasLang(AutoGenerated, "en-GB")
    /\ Truthy(ResultFor(TracksOf(AutoGenerated, "en-GB")))

-----------------------------------------------------------------------------
(* Further properties of the parsers, checked under SpecParse.             *)

\* the passes of the outer loop of _parse_vtt_content, one for each line it
\* could start at
RECURSIVE StepsFrom(_, _)
StepsFrom(lines, i) ==
    IF i > Len(lines) THEN <<>>
    ELSE <<VttStep(lines, i)>> \o StepsFrom(lines, i + 1)

StepsOf(lines) == StepsFrom(lines, 1)

\* the lines the outer loop examines, from line i on
RECURSIVE OuterVisits(_, _)
OuterVisits(steps, i) ==
    IF i > Len(steps) THEN {} ELSE {i} \cup OuterVisits(steps, steps[i].next)

\* the lines the text-collection loop reads for the timing line at i
TextLinesOf(steps, i) ==
    IF steps[i].next = i + 1 THEN {} ELSE (i + 1)..(steps[i].next - 2)

ArrowLines(lines) == {i \in 1..Len(lines) : Contains(lines[i], ARROW)}

\* the line index strictly increases in both loops, and no line is read
\* twice
ConsumedOnce(lines, steps, visits) ==
    /\ \A i \in 1..Len(lines) :
           /\ steps[i].next > i
           /\ steps[i].next <= Len(lines) + 2
           /\ CollectEnd(lines, i + 1) >= i + 1
    /\ \A i, k \in visits :
           /\ k \notin TextLinesOf(steps, i)
           /\ i # k => TextLinesOf(steps, i) \cap TextLinesOf(steps, k) = {}

LinesConsumedOnce(lines, steps) ==
    ConsumedOnce(lines, steps, OuterVisits(steps, 1))

\* C26: _parse_vtt_content terminates on every finite input: the line index
\* strictly increases on every iteration of the outer loop and of the
\* text-collection loop, every line is consumed at most once, as skipped
\* line, timing line or text line of one cue, and the segments emitted are
\* no more than the lines containing "-->"
C26_EveryLineIsConsumedOnce ==
    VttDone =>
        /\ LinesConsumedOnce(split(content.vtt, NL),
                             StepsOf(split(content.vtt, NL)))
        /\ Len(parsed.vtt.items)
               <= Cardinality(ArrowLines(split(content.vtt, NL)))

\* a file of two cues, one of them with two text lines, was parsed to the
\* end: two segments from two timing lines
C26_Witness ==
    /\ VttDone
    /\ Len(cues) = 2
    /\ Len(parsed.vtt.items) = 2
    /\ Cardinality(ArrowLines(split(content.vtt, NL))) = 2
    /\ \E i \in 1..Len(split(content.vtt, NL)) :
           Cardinality(TextLinesOf(StepsOf(split(content.vtt, NL)), i)) = 2

-----------------------------------------------------------------------------
(* Properties of the parsers on timing lines with cue settings, checked    *)
(* under SpecSettings.                                                     *)

\* the end time as it is written on the timing line, before any settings
WrittenEnd(caption) ==
    _parse_timestamp(caption.end.hms \o <<".">>
                     \o split(caption.end.frac, SPACE)[1])

WrittenStart(caption) == _parse_timestamp(VttClock(caption.start))

HasSettings(caption) == Len(split(caption.end.frac, SPACE)) > 1

\* C28: for a WebVTT cue whose timing line carries cue settings after the
\* end timestamp, _parse_vtt_content emits the segment with start = the
\* written start and duration = written end - written start, which is not
\* negative when the written end is not before the written start
C28_SettingsLeaveTheTimes ==
    VttDone /\ Len(parsed.vtt.items) = Len(cues) =>
        \A k \in 1..Len(cues) :
            /\ parsed.vtt.items[k].start = WrittenStart(cues[k])
            /\ parsed.vtt.items[k].duration =
                   DecSub(WrittenEnd(cues[k]), WrittenStart(cues[k]))
            /\ DecLeq(WrittenStart(cues[k]), WrittenEnd(cues[k])) =>
                   DecLeq(Zero, parsed.vtt.items[k].duration)

-----------------------------------------------------------------------------
(* Properties of the page's extraction handler, checked under SpecSession. *)

\* the "[MM:SS] text" line of a segment: minutes and seconds of its start,
\* two digits each
ClaimedLine(entry) ==
    <<"[">> \o Format02d(WholeSeconds(entry.start) \div 60) \o <<":">>
    \o Format02d(WholeSeconds(entry.start) % 60) \o <<"]", " ">>
    \o entry.text \o <<"\n">>

RECURSIVE ClaimedText(_)
ClaimedText(transcript) ==
    IF transcript = <<>> THEN <<>>
    ELSE ClaimedLine(Head(transcript)) \o ClaimedText(Tail(transcript))

\* transcript_text is the flattening of transcript_data
TextMatchesData ==
    session.transcript_text =
        IF session.transcript_data.isNone THEN <<>>
        ELSE ClaimedText(session.transcript_data.items)

\* the step in which the handler stores or shows the result of a call
ResultHandled == pc = "done" /\ pc' = "idle"

SessionData(state) ==
    <<state.transcript_data, state.transcript_text, state.video_info>>

\* C29: after any sequence of extraction attempts the session's
\* transcript_text is exactly the "[MM:SS] text" flattening of its
\* transcript_data, and empty while that is None; a successful extraction
\* updates transcript_data, transcript_text and video_info together, and a
\* failed one leaves all three unchanged
C29_SessionTextFollowsData ==
    /\ []TextMatchesData
    /\ [][/\ ResultHandled /\ Truthy(ret.transcript) =>
              /\ session'.transcript_data = ret.transcript
              /\ session'.transcript_text = ClaimedText(ret.transcript.items)
              /\ session'.video_info = video_info
          /\ ResultHandled /\ ~Truthy(ret.transcript) =>
              SessionData(session') = SessionData(session)
          /\ ~ResultHandled => SessionData(session') = SessionData(session)]_vars

\* a second extraction has replaced an earlier transcript by one that runs
\* past the first hour, and a third extraction is failing
C29_Witness ==
    /\ session.transcript_data = Some(API_LONG)
    /\ session.video_info.url = URL_SHORT_LINK
    /\ Contains(session.transcript_text, <<"[", "6", "2", ":", "0", "5", "]">>)
    /\ Contains(session.transcript_text, <<"[", "0", "1", ":", "1", "5", "]">>)
    /\ pc = "done"
    /\ ~Truthy(ret.transcript)
    /\ call.video_url = URL_WATCH

-----------------------------------------------------------------------------
(* Properties of the page's notes, checked under SpecNotes.                *)

\* the keys the step adds to the notes
KeysAdded == DOMAIN session'.notes \ DOMAIN session.notes

\* the notes under the keys of kept are what they were
NotesKept(kept) ==
    \A k \in kept : k \in DOMAIN session'.notes /\ session'.notes[k] = session.notes[k]

\* the step stores a note: the counter moves
NoteCreated == session'.note_counter # session.note_counter

\* the key of the note the step creates has the shape note_<type>_<counter>
\* and counts with the counter the step leaves
KeyOfShape(key) ==
    \E button \in NoteButtons :
        key = <<"n", "o", "t", "e", "_">> \o button.id \o <<"_">>
              \o DecimalDigits(session'.note_counter)

\* C30: across any sequence of note creations and deletions note_counter
\* never decreases, every created note is stored under a key
\* note_<type>_<counter> that was never used before in the session,
\* creating a note leaves the existing notes unchanged, and deleting a note
\* removes exactly that note's key and leaves the other notes and the
\* counter unchanged
C30_NoteKeysAreNeverReused ==
    [][/\ session'.note_counter >= session.note_counter
       /\ NoteCreated =>
              /\ Cardinality(KeysAdded) = 1
              /\ \A key \in KeysAdded : key \notin used_keys /\ KeyOfShape(key)
              /\ NotesKept(DOMAIN session.notes)
       /\ \A key \in DOMAIN session.notes :
              DeleteNote(key) =>
                  /\ DOMAIN session'.notes = DOMAIN session.notes \ {key}
                  /\ NotesKept(DOMAIN session.notes \ {key})
                  /\ session'.note_counter = session.note_counter
       /\ ~NoteCreated => KeysAdded = {}]_vars

\* the first note has been deleted and a second one of the same type
\* created: it is stored under a new key beside no other note
C30_Witness ==
    /\ session.note_counter = 2
    /\ DOMAIN session.notes
           = {<<"n", "o", "t", "e", "_", "s", "u", "m", "m", "a", "r", "y",
                "_", "2">>}
    /\ used_keys
           = {<<"n", "o", "t", "e", "_", "s", "u", "m", "m", "a", "r", "y",
                "_", "1">>,
              <<"n", "o", "t", "e", "_", "s", "u", "m", "m", "a", "r", "y",
                "_", "2">>}

=============================================================================
